---- MODULE Spec2Model ----
(***************************************************************************)
(* The Sofabaton remote card (rich variant, src/unnamed/part_000): the     *)
(* state-reconciliation and capability-gating logic of the custom element. *)
(* JavaScript values are tagged records, strings are sequences of          *)
(* one-character strings, so that Number(), String(), trim(),              *)
(* toLowerCase(), toUpperCase() and includes() are computed, not assumed.  *)
(***************************************************************************)
EXTENDS Integers, Sequences, FiniteSets, TLC

VARIABLES
  this,      \* the card element: its private fields and the DOM it owns
  now,       \* Date.now(), in ms
  timers,    \* the host's pending setTimeout callbacks
  inflight,  \* per service, the number of calls issued and not yet settled
  last       \* history: the handler that ran last and what it did

vars == <<this, now, timers, inflight, last>>

----------------------------------------------------------------------------
(* JavaScript values *)

Num(n)  == [t |-> "num", v |-> n]
NaN     == [t |-> "nan", v |-> 0]
Str(s)  == [t |-> "str", v |-> s]
Bool(b) == [t |-> "bool", v |-> b]
Null    == [t |-> "null", v |-> 0]
Undef   == [t |-> "undef", v |-> 0]
Arr(s)  == [t |-> "arr", v |-> s]
Obj(f)  == [t |-> "obj", v |-> f]

\* a === b
StrictEq(a, b) == a.t = b.t /\ a.t # "nan" /\ a.v = b.v

\* a == null
IsNullish(a) == a.t \in {"null", "undef"}

\* a ?? b
Coalesce(a, b) == IF IsNullish(a) THEN b ELSE a

\* the truthiness of a value
Truthy(a) ==
  CASE a.t = "num"  -> a.v # 0
    [] a.t = "nan"  -> FALSE
    [] a.t = "str"  -> a.v # <<>>
    [] a.t = "bool" -> a.v
    [] a.t \in {"null", "undef"} -> FALSE
    [] OTHER -> TRUE

\* a || b
OrElse(a, b) == IF Truthy(a) THEN a ELSE b

\* o.f, undefined when o has no such property
Get(o, f) == IF o.t = "obj" /\ f \in DOMAIN o.v THEN o.v[f] ELSE Undef

\* o?.f
OptGet(o, f) == IF IsNullish(o) THEN Undef ELSE Get(o, f)

----------------------------------------------------------------------------
(* Strings *)

UpperChars == <<"A","B","C","D","E","F","G","H","I","J","K","L","M",
                "N","O","P","Q","R","S","T","U","V","W","X","Y","Z">>
LowerChars == <<"a","b","c","d","e","f","g","h","i","j","k","l","m",
                "n","o","p","q","r","s","t","u","v","w","x","y","z">>
DigitChars == <<"0","1","2","3","4","5","6","7","8","9">>
SpaceChars == {" "}

IndexIn(c, seq) ==
  IF \E i \in DOMAIN seq : seq[i] = c
  THEN CHOOSE i \in DOMAIN seq : seq[i] = c
  ELSE 0

LowerChar(c) == IF IndexIn(c, UpperChars) # 0 THEN LowerChars[IndexIn(c, UpperChars)] ELSE c
UpperChar(c) == IF IndexIn(c, LowerChars) # 0 THEN UpperChars[IndexIn(c, LowerChars)] ELSE c

\* s.toLowerCase(), s.toUpperCase()
ToLowerCase(s) == [i \in DOMAIN s |-> LowerChar(s[i])]
ToUpperCase(s) == [i \in DOMAIN s |-> UpperChar(s[i])]

\* s.trim()
RECURSIVE TrimStart(_)
TrimStart(s) == IF s # <<>> /\ Head(s) \in SpaceChars THEN TrimStart(Tail(s)) ELSE s
RECURSIVE TrimEnd(_)
TrimEnd(s) ==
  IF s # <<>> /\ s[Len(s)] \in SpaceChars THEN TrimEnd(SubSeq(s, 1, Len(s) - 1)) ELSE s
Trim(s) == TrimEnd(TrimStart(s))

\* s.includes(sub)
Includes(s, sub) ==
  \E i \in 1..(Len(s) - Len(sub) + 1) : SubSeq(s, i, i + Len(sub) - 1) = sub

\* a.startsWith(p)
StartsWith(s, p) == Len(p) <= Len(s) /\ SubSeq(s, 1, Len(p)) = p

IsDigits(s) == s # <<>> /\ \A i \in DOMAIN s : IndexIn(s[i], DigitChars) # 0

RECURSIVE DigitsValue(_)
DigitsValue(s) ==
  IF s = <<>> THEN 0
  ELSE 10 * DigitsValue(SubSeq(s, 1, Len(s) - 1)) + (IndexIn(s[Len(s)], DigitChars) - 1)

\* The numeric value of a string: white space is trimmed, the empty string is
\* 0, an optionally signed run of decimal digits is its value, and any other
\* text over the model's alphabet (letters, digits, sign, space, "_", "-") is
\* NaN.
StringToNumber(s) ==
  LET u == Trim(s) IN
    IF u = <<>> THEN Num(0)
    ELSE IF IsDigits(u) THEN Num(DigitsValue(u))
    ELSE IF Head(u) = "-" /\ IsDigits(Tail(u)) THEN Num(0 - DigitsValue(Tail(u)))
    ELSE IF Head(u) = "+" /\ IsDigits(Tail(u)) THEN Num(DigitsValue(Tail(u)))
    ELSE NaN

\* Number(a)
ToNumber(a) ==
  CASE a.t = "num"   -> a
    [] a.t = "nan"   -> NaN
    [] a.t = "str"   -> StringToNumber(a.v)
    [] a.t = "bool"  -> Num(IF a.v THEN 1 ELSE 0)
    [] a.t = "null"  -> Num(0)
    [] a.t = "undef" -> NaN
    [] a.t = "arr"   -> IF a.v = <<>> THEN Num(0)
                        ELSE IF Len(a.v) = 1 /\ a.v[1].t \in {"num", "str"}
                             THEN (IF a.v[1].t = "num" THEN a.v[1] ELSE StringToNumber(a.v[1].v))
                             ELSE NaN
    [] OTHER         -> NaN

\* Number.isFinite(a)
IsFinite(a) == a.t = "num"

RECURSIVE NatToChars(_)
NatToChars(n) ==
  IF n < 10 THEN <<DigitChars[n + 1]>>
  ELSE NatToChars(n \div 10) \o <<DigitChars[(n % 10) + 1]>>

\* String(a), for the primitive values
ToStringChars(a) ==
  CASE a.t = "str"   -> a.v
    [] a.t = "num"   -> IF a.v < 0 THEN <<"-">> \o NatToChars(0 - a.v) ELSE NatToChars(a.v)
    [] a.t = "nan"   -> <<"N","a","N">>
    [] a.t = "bool"  -> IF a.v THEN <<"t","r","u","e">> ELSE <<"f","a","l","s","e">>
    [] a.t = "null"  -> <<"n","u","l","l">>
    [] a.t = "undef" -> <<"u","n","d","e","f","i","n","e","d">>
    [] OTHER         -> <<"[","o","b","j","e","c","t","]">>

----------------------------------------------------------------------------
(* Program constants *)

PENDING_EXPIRY_MS == 15000
COMMAND_PULSE_MS  == 1000
ACTIVITY_LOAD_TIMEOUT_MS == 60000

\* "powered off", "powered_off", "off"
POWERED_OFF_LABELS ==
  { <<"p","o","w","e","r","e","d"," ","o","f","f">>,
    <<"p","o","w","e","r","e","d","_","o","f","f">>,
    <<"o","f","f">> }

\* The button catalog that _render builds: key, numeric id (also the command
\* sent) and whether the key exists on the X2 hub only (_x2OnlyIds; the
\* colour keys are never X2-only).
KeyCatalog ==
  { [key |-> "up",    id |-> 174, isX2Only |-> FALSE, group |-> "dpad"],
    [key |-> "left",  id |-> 175, isX2Only |-> FALSE, group |-> "dpad"],
    [key |-> "ok",    id |-> 176, isX2Only |-> FALSE, group |-> "dpad"],
    [key |-> "right", id |-> 177, isX2Only |-> FALSE, group |-> "dpad"],
    [key |-> "down",  id |-> 178, isX2Only |-> FALSE, group |-> "dpad"],
    [key |-> "back",  id |-> 179, isX2Only |-> FALSE, group |-> "nav"],
    [key |-> "home",  id |-> 180, isX2Only |-> FALSE, group |-> "nav"],
    [key |-> "menu",  id |-> 181, isX2Only |-> FALSE, group |-> "nav"],
    [key |-> "volup", id |-> 182, isX2Only |-> FALSE, group |-> "mid"],
    [key |-> "voldn", id |-> 185, isX2Only |-> FALSE, group |-> "mid"],
    [key |-> "guide", id |-> 157, isX2Only |-> TRUE,  group |-> "mid"],
    [key |-> "mute",  id |-> 184, isX2Only |-> FALSE, group |-> "mid"],
    [key |-> "chup",  id |-> 183, isX2Only |-> FALSE, group |-> "mid"],
    [key |-> "chdn",  id |-> 186, isX2Only |-> FALSE, group |-> "mid"],
    [key |-> "rew",   id |-> 187, isX2Only |-> FALSE, group |-> "media"],
    [key |-> "play",  id |-> 156, isX2Only |-> TRUE,  group |-> "media"],
    [key |-> "fwd",   id |-> 189, isX2Only |-> FALSE, group |-> "media"],
    [key |-> "dvr",   id |-> 155, isX2Only |-> TRUE,  group |-> "media"],
    [key |-> "pause", id |-> 188, isX2Only |-> FALSE, group |-> "media"],
    [key |-> "exit",  id |-> 154, isX2Only |-> TRUE,  group |-> "media"],
    [key |-> "red",    id |-> 190, isX2Only |-> FALSE, group |-> "colors"],
    [key |-> "green",  id |-> 191, isX2Only |-> FALSE, group |-> "colors"],
    [key |-> "yellow", id |-> 192, isX2Only |-> FALSE, group |-> "colors"],
    [key |-> "blue",   id |-> 193, isX2Only |-> FALSE, group |-> "colors"],
    [key |-> "a",     id |-> 153, isX2Only |-> TRUE,  group |-> "abc"],
    [key |-> "b",     id |-> 152, isX2Only |-> TRUE,  group |-> "abc"],
    [key |-> "c",     id |-> 151, isX2Only |-> TRUE,  group |-> "abc"] }

KeyNames == {k.key : k \in KeyCatalog}
KeyInfo == [name \in KeyNames |-> CHOOSE k \in KeyCatalog : k.key = name]
KeyOf(name) == KeyInfo[name]

Groups == {"activity", "dpad", "nav", "mid", "media", "colors", "abc"}

----------------------------------------------------------------------------
(* State helpers *)

\* hass.states[id], undefined when there is no such entity
LookupState(hass, id) ==
  IF hass.t = "hass" /\ id.t = "str" /\ id.v \in DOMAIN hass.v.states
  THEN hass.v.states[id.v]
  ELSE Undef

_remoteState(self) == LookupState(self.hass, OptGet(self.config, "entity"))

RemoteAttr(self, name) == OptGet(OptGet(_remoteState(self), "attributes"), name)

_hubVersion(self) ==
  ToUpperCase(ToStringChars(OrElse(RemoteAttr(self, "hub_version"), Str(<<>>))))

_isX2(self) == Includes(_hubVersion(self), <<"X","2">>)

\* One entry of enabled_buttons as the map callback turns it.
ParseEntry(entry) ==
  IF Truthy(entry) /\ entry.t \in {"obj", "arr"}
  THEN LET command ==
             ToNumber(Coalesce(Get(entry, "command"),
                      Coalesce(Get(entry, "command_id"),
                      Coalesce(Get(entry, "button_id"),
                      Coalesce(Get(entry, "id"),
                               Get(entry, "button"))))))
           activityId == Coalesce(Coalesce(Get(entry, "activity_id"), Get(entry, "device")), Null)
       IN [command |-> command,
           activity_id |-> IF ~IsNullish(activityId) THEN ToNumber(activityId) ELSE Null]
  ELSE [command |-> ToNumber(entry), activity_id |-> Null]

\* a filter that keeps every entry, finite or not
FilterNone(s) == s

RECURSIVE FilterFinite(_)
FilterFinite(s) ==
  IF s = <<>> THEN <<>>
  ELSE IF IsFinite(Head(s).command) THEN <<Head(s)>> \o FilterFinite(Tail(s))
  ELSE FilterFinite(Tail(s))

\* What _enabledButtons() returns.
_enabledButtons(self) ==
  LET list == RemoteAttr(self, "enabled_buttons") IN
    IF list.t # "arr" THEN <<>>
    ELSE FilterFinite([i \in DOMAIN list.v |-> ParseEntry(list.v[i])])

\* What _enabledButtons() leaves in this._enabledButtonsInvalid: the early
\* return for a non-array leaves the field as it was.
EnabledButtonsInvalidAfter(self) ==
  LET list == RemoteAttr(self, "enabled_buttons") IN
    IF list.t # "arr" THEN self.enabledButtonsInvalid
    ELSE Len(list.v) > 0 /\ Len(_enabledButtons(self)) = 0

\* the decision without the fail-open for a list that yields no entry
IsEnabledNoFailOpen(enabled, invalid, id) ==
  IF invalid THEN TRUE
  ELSE \E i \in DOMAIN enabled : StrictEq(enabled[i].command, ToNumber(id))

\* the decision that looks at the first entry only
IsEnabledFirstOnly(enabled, invalid, id) ==
  IF invalid THEN TRUE
  ELSE IF Len(enabled) = 0 THEN TRUE
  ELSE StrictEq(enabled[1].command, ToNumber(id))

\* The decision of _isEnabled(id), given what _enabledButtons() returned and
\* what it left in this._enabledButtonsInvalid.
IsEnabledIn(enabled, invalid, id) ==
  IF invalid THEN TRUE
  ELSE IF Len(enabled) = 0 THEN TRUE
  ELSE \E i \in DOMAIN enabled : StrictEq(enabled[i].command, ToNumber(id))

\* the value _isEnabled(id) returns
_isEnabled(self, id) ==
  IsEnabledIn(_enabledButtons(self), EnabledButtonsInvalidAfter(self), id)

\* the last entry for the command, or null
CommandTargetLast(self, id) ==
  LET enabled == _enabledButtons(self)
      hits == {i \in DOMAIN enabled : StrictEq(enabled[i].command, ToNumber(id))}
  IN IF hits = {} THEN Null
     ELSE Obj(enabled[CHOOSE i \in hits : \A j \in hits : i >= j])

\* the first entry for the command, or null
_commandTarget(self, id) ==
  LET enabled == _enabledButtons(self)
      hits == {i \in DOMAIN enabled : StrictEq(enabled[i].command, ToNumber(id))}
  IN IF hits = {} THEN Null
     ELSE Obj(enabled[CHOOSE i \in hits : \A j \in hits : i <= j])

_currentActivityId(self) ==
  LET activityId == RemoteAttr(self, "current_activity_id") IN
    IF ~IsNullish(activityId) THEN ToNumber(activityId) ELSE Null

_activitySelectEntityId(self) == OrElse(RemoteAttr(self, "activity_select_entity_id"), Null)

_activitySelectState(self) ==
  LET selId == _activitySelectEntityId(self) IN
    IF Truthy(selId) THEN LookupState(self.hass, selId) ELSE Null

_currentActivityLabel(self, sel) ==
  ToStringChars(Coalesce(RemoteAttr(self, "current_activity"),
                Coalesce(OptGet(sel, "state"), Str(<<>>))))

_isPoweredOffLabel(state) ==
  ToLowerCase(Trim(ToStringChars(OrElse(state, Str(<<>>))))) \in POWERED_OFF_LABELS

----------------------------------------------------------------------------
(* Load indicator.  A handler works on a world w = [this, timers, calls]:  *)
(* the card, the host's pending timers, and the service calls the handler  *)
(* has issued so far.                                                      *)

\* Sequencing: the value v of one statement, handed to the rest of the body.
Then(v, Rest(_)) == Rest(v)

\* The value _isLoadingActive() returns at time t: a boolean, or undefined
\* when nothing loads and no pulse was ever started.
_isLoadingActive(self, t) ==
  LET isActivityLoading == Bool(Truthy(self.activityLoadActive))
      isPulse == IF Truthy(self.commandPulseUntil)
                 THEN Bool(t < self.commandPulseUntil.v)
                 ELSE self.commandPulseUntil
  IN OrElse(isActivityLoading, isPulse)

\* classList.toggle(token, force) on a class that is present or not: an
\* undefined force toggles, any other is converted to a boolean.
ClassToggle(present, force) == IF force.t = "undef" THEN ~present ELSE Truthy(force)

\* a refresh that writes without comparing
UpdateIndicatorAlwaysWrites(self, t) ==
  IF ~self.root THEN self
  ELSE Then(_isLoadingActive(self, t), LAMBDA active :
    [self EXCEPT !.loadIndicatorActive = active,
                 !.loadIndicatorClass = ClassToggle(@, active),
                 !.indicatorWrites = @ \o <<active>>])

_updateLoadIndicator(self, t) ==
  IF ~self.root THEN self
  ELSE Then(_isLoadingActive(self, t), LAMBDA active :
    IF StrictEq(self.loadIndicatorActive, active) THEN self
    ELSE [self EXCEPT !.loadIndicatorActive = active,
                      !.loadIndicatorClass = ClassToggle(@, active),
                      !.indicatorWrites = @ \o <<active>>])

ClearNoTimeout(ts, handle) == ts

\* clearTimeout(handle)
ClearTimeout(ts, handle) == {x \in ts : x.id # handle}

\* The handle setTimeout returns: one that names no pending timer and that no
\* field of the card still holds.
TimerIds == 1..4
FreshTimerId(w) ==
  CHOOSE i \in TimerIds :
    /\ i \notin ({x.id : x \in w.timers}
                 \cup {w.this.commandPulseTimeout, w.this.activityLoadTimeout})
    /\ \A j \in TimerIds :
         j \notin ({x.id : x \in w.timers}
                   \cup {w.this.commandPulseTimeout, w.this.activityLoadTimeout}) => i <= j

\* a setTimeout that schedules nothing
SetNoTimeout(w, kind, field, t, delay) == w

\* setTimeout(callback, delay) at time t, the handle stored in field
SetTimeout(w, kind, field, t, delay) ==
  Then(FreshTimerId(w), LAMBDA id :
    [w EXCEPT !.timers = @ \cup {[id |-> id, kind |-> kind, due |-> t + delay]},
              !.this[field] = id])

\* a pulse that leaves the earlier callback scheduled
TriggerPulseNoCancel(w, t) ==
  Then(_updateLoadIndicator([w.this EXCEPT !.commandPulseUntil = Num(t + COMMAND_PULSE_MS)], t),
       LAMBDA s2 :
  SetTimeout([w EXCEPT !.this = s2], "pulse", "commandPulseTimeout", t, COMMAND_PULSE_MS))

_triggerCommandPulse(w, t) ==
  Then(_updateLoadIndicator([w.this EXCEPT !.commandPulseUntil = Num(t + COMMAND_PULSE_MS)], t),
       LAMBDA s2 :
  Then([w EXCEPT !.this = s2, !.timers = ClearTimeout(@, s2.commandPulseTimeout)],
       LAMBDA w1 :
  SetTimeout(w1, "pulse", "commandPulseTimeout", t, COMMAND_PULSE_MS)))

\* activity loading that schedules no safety timer
StartActivityLoadingNoTimer(w, target, t) ==
  [w EXCEPT !.this =
     _updateLoadIndicator(
       [@ EXCEPT !.activityLoadTarget = Str(ToStringChars(Coalesce(target, Str(<<>>)))),
                 !.activityLoadActive = Bool(TRUE),
                 !.activityLoadStartedAt = Num(t)], t)]

_startActivityLoading(w, target, t) ==
  Then(_updateLoadIndicator(
         [w.this EXCEPT !.activityLoadTarget = Str(ToStringChars(Coalesce(target, Str(<<>>)))),
                        !.activityLoadActive = Bool(TRUE),
                        !.activityLoadStartedAt = Num(t)], t),
       LAMBDA s2 :
  Then([w EXCEPT !.this = s2, !.timers = ClearTimeout(@, s2.activityLoadTimeout)],
       LAMBDA w1 :
  SetTimeout(w1, "load", "activityLoadTimeout", t, ACTIVITY_LOAD_TIMEOUT_MS)))

\* a stop without the test of the flag
StopLoadingUnguarded(w, t) ==
  [w EXCEPT !.timers = ClearTimeout(@, w.this.activityLoadTimeout),
            !.this = _updateLoadIndicator([@ EXCEPT !.activityLoadActive = Bool(FALSE),
                                                    !.activityLoadTarget = Null,
                                                    !.activityLoadStartedAt = Null], t)]

_stopActivityLoading(w, t) ==
  IF ~Truthy(w.this.activityLoadActive) THEN w
  ELSE [w EXCEPT !.timers = ClearTimeout(@, w.this.activityLoadTimeout),
                 !.this = _updateLoadIndicator([@ EXCEPT !.activityLoadActive = Bool(FALSE),
                                                         !.activityLoadTarget = Null,
                                                         !.activityLoadStartedAt = Null], t)]

\* a callback that does nothing
NoCallback(w, t) == w

\* the callback _triggerCommandPulse schedules
PulseCallback(w, t) == [w EXCEPT !.this = _updateLoadIndicator(@, t)]

\* the callback _startActivityLoading schedules
LoadCallback(w, t) ==
  IF Truthy(w.this.activityLoadActive)
  THEN [w EXCEPT !.this = _updateLoadIndicator([@ EXCEPT !.activityLoadActive = Bool(FALSE)], t)]
  ELSE w

----------------------------------------------------------------------------
(* Services *)

\* hass.callService(domain, service, data), invoked before the first await
_callService(w, domain, service, data) ==
  [w EXCEPT !.calls = @ \o <<[domain |-> domain, service |-> service, data |-> data]>>]

_sendCommand(w, commandId) ==
  IF w.this.hass.t = "undef" \/ ~Truthy(OptGet(w.this.config, "entity")) THEN w
  ELSE Then(Coalesce(OptGet(_commandTarget(w.this, commandId), "activity_id"),
                     _currentActivityId(w.this)),
            LAMBDA device :
         IF IsNullish(device) THEN w
         ELSE _callService(w, "remote", "send_command",
                           [entity_id |-> Get(w.this.config, "entity"),
                            command |-> commandId, device |-> device]))

\* a _setActivity that leaves its own state for after the call
SetActivityCallOnly(w, option, t) ==
  Then(_activitySelectEntityId(w.this), LAMBDA selId :
    IF \/ ~Truthy(selId)
       \/ IsNullish(option)
       \/ StrictEq(OptGet(_activitySelectState(w.this), "state"), option)
    THEN w
    ELSE _callService(w, "select", "select_option", [entity_id |-> selId, option |-> option]))

\* a _setActivity without the test against the selector's state
SetActivityUnguarded(w, option, t) ==
  Then(_activitySelectEntityId(w.this), LAMBDA selId :
    IF ~Truthy(selId) \/ IsNullish(option)
    THEN w
    ELSE _callService(
           _startActivityLoading(
             [w EXCEPT !.this.pendingActivity = Str(ToStringChars(option)),
                       !.this.pendingActivityAt = Num(t)],
             option, t),
           "select", "select_option", [entity_id |-> selId, option |-> option]))

_setActivity(w, option, t) ==
  Then(_activitySelectEntityId(w.this), LAMBDA selId :
    IF \/ ~Truthy(selId)
       \/ IsNullish(option)
       \/ StrictEq(OptGet(_activitySelectState(w.this), "state"), option)
    THEN w
    ELSE _callService(
           _startActivityLoading(
             [w EXCEPT !.this.pendingActivity = Str(ToStringChars(option)),
                       !.this.pendingActivityAt = Num(t)],
             option, t),
           "select", "select_option", [entity_id |-> selId, option |-> option]))

\* a listener that does not look at _suppressActivityChange
HandleSelectUnguarded(w, ev, t) ==
  Then(Coalesce(ev.detailValue, Coalesce(ev.targetValue, w.this.selectValue)),
       LAMBDA value :
    IF ~IsNullish(value) THEN _setActivity(w, value, t) ELSE w)

\* The listener of the selector's "selected" and "change" events.  ev carries
\* ev.detail.value and ev.target.value.
handleActivitySelect(w, ev, t) ==
  IF w.this.suppressActivityChange THEN w
  ELSE Then(Coalesce(ev.detailValue, Coalesce(ev.targetValue, w.this.selectValue)),
            LAMBDA value :
         IF ~IsNullish(value) THEN _setActivity(w, value, t) ELSE w)

----------------------------------------------------------------------------
(* Theme and background (per card).  The inline style of the card root is  *)
(* a function from property names to values.                               *)

\* style.setProperty(name, value): an empty value removes the property
SetProperty(style, name, value) ==
  IF value = <<>> THEN [n \in DOMAIN style \ {name} |-> style[n]]
  ELSE [n \in DOMAIN style \cup {name} |-> IF n = name THEN value ELSE style[n]]

\* style.removeProperty(name)
RemoveProperty(style, name) == [n \in DOMAIN style \ {name} |-> style[n]]

\* a removal loop that removes nothing
RemoveNone(style, names) == style

RECURSIVE RemoveAll(_, _)
RemoveAll(style, names) ==
  IF names = <<>> THEN style ELSE RemoveAll(RemoveProperty(style, Head(names)), Tail(names))

RgbText(r, g, b) ==
  <<"r","g","b","(">> \o ToStringChars(r) \o <<","," ">> \o ToStringChars(g)
    \o <<","," ">> \o ToStringChars(b) \o <<")">>

_rgbToCss(rgb) ==
  IF rgb.t = "arr" /\ Len(rgb.v) >= 3
  THEN LET r == ToNumber(rgb.v[1])
           g == ToNumber(rgb.v[2])
           b == ToNumber(rgb.v[3])
       IN IF \E n \in {r, g, b} : n.t = "nan" THEN <<>> ELSE RgbText(r, g, b)
  ELSE IF Truthy(rgb) /\ rgb.t = "obj" /\ ~IsNullish(Get(rgb, "r"))
          /\ ~IsNullish(Get(rgb, "g")) /\ ~IsNullish(Get(rgb, "b"))
  THEN LET r == ToNumber(Get(rgb, "r"))
           g == ToNumber(Get(rgb, "g"))
           b == ToNumber(Get(rgb, "b"))
       IN IF \E n \in {r, g, b} : n.t = "nan" THEN <<>> ELSE RgbText(r, g, b)
  ELSE <<>>

\* A theme definition is [vars, modes]: vars the ordered entries <<k, v>> of
\* the definition other than "modes", modes undefined or [light, dark], each a
\* sequence of entries.
EntryKeys(entries) == {entries[i][1] : i \in DOMAIN entries}
EntryValue(entries, k) ==
  IF k \in EntryKeys(entries)
  THEN (CHOOSE i \in DOMAIN entries : entries[i][1] = k) 
  ELSE 0

\* vars?.[k]
VarOf(entries, k) ==
  IF EntryValue(entries, k) = 0 THEN Undef ELSE entries[EntryValue(entries, k)][2]

RECURSIVE AppendNew(_, _)
AppendNew(base, over) ==
  IF over = <<>> THEN base
  ELSE IF Head(over)[1] \in EntryKeys(base) THEN AppendNew(base, Tail(over))
  ELSE AppendNew(Append(base, Head(over)), Tail(over))

\* { ...def, ...over }
SpreadMerge(base, over) ==
  AppendNew([i \in DOMAIN base |->
               IF base[i][1] \in EntryKeys(over)
               THEN <<base[i][1], VarOf(over, base[i][1])>> ELSE base[i]],
            over)

\* The variables of the selected theme (vars in _applyLocalTheme), or null.
ThemeVars(self, themeName) ==
  IF ~Truthy(themeName) \/ self.hass.v.themes.t = "undef" THEN Null
  ELSE LET themes == self.hass.v.themes.v.themes IN
    IF themeName.t # "str" \/ themeName.v \notin DOMAIN themes THEN Null
    ELSE LET def == themes[themeName.v] IN
      IF def.modes.t = "undef" THEN Arr(def.vars)
      ELSE LET mode == IF self.hass.v.themes.v.darkMode THEN "dark" ELSE "light"
           IN Arr(SpreadMerge(def.vars, def.modes.v[mode]))

CssVarName(k) == IF StartsWith(k, <<"-","-">>) THEN k ELSE <<"-","-">> \o k

\* the loop over Object.entries(vars): st = [style, applied]
RECURSIVE ApplyEntries(_, _)
ApplyEntries(st, entries) ==
  IF entries = <<>> THEN st
  ELSE LET k == Head(entries)[1]
           v == Head(entries)[2]
       IN IF IsNullish(v) \/ v.t \notin {"str", "num", "nan"} THEN ApplyEntries(st, Tail(entries))
          ELSE ApplyEntries([style |-> SetProperty(st.style, CssVarName(k), ToStringChars(v)),
                             applied |-> Append(st.applied, CssVarName(k))],
                            Tail(entries))

BgVarNames == << <<"-","-","h","a","-","c","a","r","d","-","b","a","c","k","g","r","o","u","n","d">>,
                 <<"-","-","c","a","r","d","-","b","a","c","k","g","r","o","u","n","d","-","c","o","l","o","r">>,
                 <<"-","-","h","a","-","c","a","r","d","-","b","a","c","k","g","r","o","u","n","d","-","c","o","l","o","r">> >>
BgPropNames == << <<"b","a","c","k","g","r","o","u","n","d">>,
                  <<"b","a","c","k","g","r","o","u","n","d","-","c","o","l","o","r">> >>
PrimaryBgName == <<"p","r","i","m","a","r","y","-","b","a","c","k","g","r","o","u","n","d","-","c","o","l","o","r">>

\* theme variable names are looked up without the leading "--"
Bare(name) == SubSeq(name, 3, Len(name))

\* a forcing loop that sets nothing
SetNone(style, names, value) == style

RECURSIVE SetAll(_, _, _)
SetAll(style, names, value) ==
  IF names = <<>> THEN style ELSE SetAll(SetProperty(style, Head(names), value), Tail(names), value)

ThemeKeyNeverUnchanged(self, appliedKey) == FALSE

\* this._appliedThemeKey === appliedKey
ThemeKeyUnchanged(self, appliedKey) == StrictEq(self.appliedThemeKey, Str(appliedKey))

\* themeWrites counts the removeProperty and setProperty calls it makes.
_applyLocalTheme(self, themeName) ==
  IF ~self.root \/ self.hass.t = "undef" THEN self
  ELSE LET bgOverrideCss == _rgbToCss(Get(self.config, "background_override"))
           appliedKey == ToStringChars(OrElse(themeName, Str(<<>>))) \o <<"|","|">> \o bgOverrideCss
       IN IF ThemeKeyUnchanged(self, appliedKey) THEN self
          ELSE LET cleared == RemoveAll(self.style, self.appliedThemeVars)
                   tvars == ThemeVars(self, themeName)
                   st1 == IF tvars.t = "arr"
                          THEN ApplyEntries([style |-> cleared, applied |-> <<>>], tvars.v)
                          ELSE [style |-> cleared, applied |-> <<>>]
                   ents == IF tvars.t = "arr" THEN tvars.v ELSE <<>>
                   themeBg == Coalesce(VarOf(ents, Bare(BgVarNames[1])),
                              Coalesce(VarOf(ents, Bare(BgVarNames[2])),
                              Coalesce(VarOf(ents, Bare(BgVarNames[3])),
                              Coalesce(VarOf(ents, PrimaryBgName), Null))))
                   finalBg == OrElse(Str(bgOverrideCss), themeBg)
               IN IF Truthy(finalBg)
                  THEN [self EXCEPT
                         !.appliedThemeKey = Str(appliedKey),
                         !.style = SetAll(st1.style, BgVarNames \o BgPropNames, ToStringChars(finalBg)),
                         !.appliedThemeVars = st1.applied \o BgVarNames \o BgPropNames,
                         !.themeWrites = @ + Len(self.appliedThemeVars) + Len(st1.applied)
                                           + Len(BgVarNames \o BgPropNames)]
                  ELSE [self EXCEPT
                         !.appliedThemeKey = Str(appliedKey),
                         !.style = RemoveAll(st1.style, BgPropNames),
                         !.appliedThemeVars = st1.applied,
                         !.themeWrites = @ + Len(self.appliedThemeVars) + Len(st1.applied)
                                           + Len(BgPropNames)]

GroupRadiusName == <<"-","-","s","b","-","g","r","o","u","p","-","r","a","d","i","u","s">>
DefaultRadius == <<"1","8","p","x">>

\* The value getComputedStyle(root) reports for the first radius candidate
\* that has one: the inline declaration on the root if there is one, else
\* what the page lets the card inherit (inherited, a sequence of candidate
\* values in the order the code tries them).
RadiusCandidates ==
  << <<"-","-","h","a","-","c","a","r","d","-","b","o","r","d","e","r","-","r","a","d","i","u","s">>,
     <<"-","-","h","a","-","c","o","n","t","r","o","l","-","b","o","r","d","e","r","-","r","a","d","i","u","s">>,
     <<"-","-","m","d","c","-","s","h","a","p","e","-","m","e","d","i","u","m">>,
     <<"-","-","m","d","c","-","s","h","a","p","e","-","s","m","a","l","l">>,
     <<"-","-","m","d","c","-","s","h","a","p","e","-","l","a","r","g","e">> >>

ComputedValue(style, inherited, i) ==
  Trim(IF RadiusCandidates[i] \in DOMAIN style THEN style[RadiusCandidates[i]] ELSE inherited[i])

_updateGroupRadius(self, inherited) ==
  IF ~self.root THEN self
  ELSE LET hits == {i \in DOMAIN RadiusCandidates : ComputedValue(self.style, inherited, i) # <<>>}
           radius == IF hits = {} THEN DefaultRadius
                     ELSE ComputedValue(self.style, inherited, CHOOSE i \in hits : \A j \in hits : i <= j)
       IN [self EXCEPT
            !.style = SetProperty(@, GroupRadiusName, radius),
            !.appliedThemeVars =
               IF \E i \in DOMAIN @ : @[i] = GroupRadiusName THEN @ ELSE Append(@, GroupRadiusName)]

----------------------------------------------------------------------------
(* The reconciliation pass *)

WarnSelectMissing == "Activity select not found (activity_select_entity_id missing?)."
WarnUnavailable == "Remote is unavailable (often because the Sofabaton app is connected)."

\* _setVisible(el, on): the display value it leaves
Display(on) == IF Truthy(on) THEN "" ELSE "none"

UpdateSelectorMissingNoWarning(w, t) ==
  _stopActivityLoading([w EXCEPT !.this.selectDisabled = TRUE, !.this.selectItems = <<>>], t)

\* The selector branch of _update when the selector entity is missing.
UpdateSelectorMissing(w, t) ==
  Then(_stopActivityLoading([w EXCEPT !.this.selectDisabled = TRUE,
                                      !.this.selectItems = <<>>], t),
       LAMBDA w2 :
    [w2 EXCEPT !.this.warnDisplay = "block", !.this.warnText = WarnSelectMissing])

\* The write of the displayed value, between the raising and the lowering of
\* _suppressActivityChange; the control may answer a programmatic write with
\* an event of its own (env.emit), which reaches the listener synchronously.
SyncSelectValue(w, value, t, env) ==
  Then([w EXCEPT !.this.suppressActivityChange = TRUE, !.this.selectValue = value],
       LAMBDA w2 :
  Then(IF env.emit
       THEN handleActivitySelect(w2, [detailValue |-> Undef, targetValue |-> value], t)
       ELSE w2,
       LAMBDA w3 :
  [w3 EXCEPT !.this.suppressActivityChange = FALSE]))

\* a clearing on confirmation only
ClearPendingOnConfirmOnly(w, current, pendingActivity, pendingExpired) ==
  IF Truthy(pendingActivity) /\ StrictEq(current, pendingActivity)
  THEN [w EXCEPT !.this.pendingActivity = Null, !.this.pendingActivityAt = Null]
  ELSE w

\* a clearing on expiry only
ClearPendingOnExpiryOnly(w, current, pendingActivity, pendingExpired) ==
  IF Truthy(pendingActivity) /\ pendingExpired
  THEN [w EXCEPT !.this.pendingActivity = Null, !.this.pendingActivityAt = Null]
  ELSE w

\* a clearing on every tick of a present selector
ClearPendingAlways(w, current, pendingActivity, pendingExpired) ==
  IF Truthy(pendingActivity)
  THEN [w EXCEPT !.this.pendingActivity = Null, !.this.pendingActivityAt = Null]
  ELSE w

\* the clearing of a pending activity that is confirmed or expired
ClearPending(w, current, pendingActivity, pendingExpired) ==
  IF Truthy(pendingActivity) /\ (pendingExpired \/ StrictEq(current, pendingActivity))
  THEN [w EXCEPT !.this.pendingActivity = Null, !.this.pendingActivityAt = Null]
  ELSE w

\* The rebuilding of the option items when the options changed.
\* JSON.stringify is one-to-one on arrays of strings, so the signature is
\* the array itself.
SyncOptions(w, options) ==
  IF ~StrictEq(w.this.activityOptionsSig, [t |-> "json", v |-> options])
  THEN [w EXCEPT !.this.activityOptionsSig = [t |-> "json", v |-> options],
                 !.this.selectItems = options]
  ELSE w

AutoStopNever(w, sel, t) == w

\* an auto-stop that waits for the pending activity to resolve
AutoStopWhenIdle(w, sel, t) ==
  IF /\ Truthy(w.this.activityLoadActive)
     /\ ~Truthy(w.this.pendingActivity)
     /\ Str(_currentActivityLabel(w.this, sel)) = w.this.activityLoadTarget
  THEN _stopActivityLoading(w, t)
  ELSE w

\* the stop of activity loading once the confirmed label is the target
AutoStopLoading(w, sel, t) ==
  Then(_currentActivityLabel(w.this, sel), LAMBDA currentActivity :
    IF /\ Truthy(w.this.activityLoadActive)
       /\ Truthy(w.this.activityLoadTarget)
       /\ currentActivity # <<>>
       /\ StrictEq(Str(currentActivity), w.this.activityLoadTarget)
    THEN _stopActivityLoading(w, t)
    ELSE w)

\* The selector branch of _update when the selector entity is present;
\* pendingActivity and pendingExpired are the locals read before the branch.
UpdateSelectorPresent(w, sel, pendingActivity, pendingExpired, t, env) ==
  Then(OptGet(Get(sel, "attributes"), "options"), LAMBDA opts :
  Then(OrElse(Get(sel, "state"), Str(<<>>)), LAMBDA current :
  Then(SyncOptions(ClearPending(w, current, pendingActivity, pendingExpired),
                   IF opts.t = "arr" THEN opts.v ELSE <<>>),
       LAMBDA w2 :
  Then(SyncSelectValue(w2,
         IF Truthy(pendingActivity) /\ ~pendingExpired /\ ~StrictEq(pendingActivity, current)
         THEN pendingActivity ELSE current, t, env),
       LAMBDA w3 :
  AutoStopLoading([w3 EXCEPT !.this.selectDisabled = FALSE, !.this.warnDisplay = "none"],
                  sel, t)))))

\* a powered-off test on the value the selector control displays
IsPoweredOffDisplayed(self) ==
  IF ~Truthy(_activitySelectEntityId(self)) \/ ~Truthy(_activitySelectState(self)) THEN FALSE
  ELSE _isPoweredOffLabel(self.selectValue)

\* the isPoweredOff local of _update
IsPoweredOff(self) ==
  Then(_activitySelectState(self), LAMBDA sel :
    IF ~Truthy(_activitySelectEntityId(self)) \/ ~Truthy(sel) THEN FALSE
    ELSE _isPoweredOffLabel(OrElse(Get(sel, "state"), Str(<<>>))))

\* the loop without the powered-off test
UpdateKeysIgnoringPower(self, isX2, isPoweredOff, enabled, invalid) ==
  [self EXCEPT
    !.keys = [k \in KeyNames |->
                [display |-> IF KeyOf(k).isX2Only THEN Display(Bool(isX2)) ELSE @[k].display,
                 disabled |-> ~IsEnabledIn(enabled, invalid, Num(KeyOf(k).id))]],
    !.enabledButtonsInvalid = invalid]

\* a loop that hides the X2-only keys and never shows them again
UpdateKeysNeverReshow(self, isX2, isPoweredOff, enabled, invalid) ==
  [self EXCEPT
    !.keys = [k \in KeyNames |->
                [display |-> IF KeyOf(k).isX2Only /\ ~isX2 THEN "none" ELSE @[k].display,
                 disabled |-> ~(~isPoweredOff
                                /\ IsEnabledIn(enabled, invalid, Num(KeyOf(k).id)))]],
    !.enabledButtonsInvalid = IF isPoweredOff THEN @ ELSE invalid]

\* a loop that only ever adds the disabled class
UpdateKeysSticky(self, isX2, isPoweredOff, enabled, invalid) ==
  [self EXCEPT
    !.keys = [k \in KeyNames |->
                [display |-> IF KeyOf(k).isX2Only THEN Display(Bool(isX2)) ELSE @[k].display,
                 disabled |-> @[k].disabled
                              \/ ~(~isPoweredOff
                                   /\ IsEnabledIn(enabled, invalid, Num(KeyOf(k).id)))]],
    !.enabledButtonsInvalid = IF isPoweredOff THEN @ ELSE invalid]

\* The loop over this._keys: visibility of the X2-only keys and the disabled
\* class of every key.
UpdateKeysWith(self, isX2, isPoweredOff, enabled, invalid) ==
  [self EXCEPT
    !.keys = [k \in KeyNames |->
                [display |-> IF KeyOf(k).isX2Only THEN Display(Bool(isX2)) ELSE @[k].display,
                 disabled |-> ~(~isPoweredOff
                                /\ IsEnabledIn(enabled, invalid, Num(KeyOf(k).id)))]],
    !.enabledButtonsInvalid = IF isPoweredOff THEN @ ELSE invalid]

UpdateKeys(self, isX2, isPoweredOff) ==
  UpdateKeysWith(self, isX2, isPoweredOff, _enabledButtons(self), EnabledButtonsInvalidAfter(self))

\* the visibility toggles of the groups (user config)
UpdateGroupsIgnoringConfig(self, isX2) ==
  [self EXCEPT !.groups = [g \in Groups |-> IF g = "abc" THEN Display(Bool(isX2)) ELSE ""]]

UpdateGroups(self, isX2) ==
  Then(self.config, LAMBDA cfg :
    [self EXCEPT
      !.groups = [g \in Groups |->
         CASE g = "activity" -> Display(Get(cfg, "show_activity"))
           [] g = "dpad"     -> Display(Get(cfg, "show_dpad"))
           [] g = "nav"      -> Display(Get(cfg, "show_nav"))
           [] g = "mid"      -> Display(Get(cfg, "show_mid"))
           [] g = "media"    -> Display(Get(cfg, "show_media"))
           [] g = "colors"   -> Display(Get(cfg, "show_colors"))
           [] g = "abc"      -> Display(Bool(Truthy(Get(cfg, "show_abc")) /\ isX2))]])

\* no warning for an unavailable remote
WarnNever(self) == self

\* the warning of an unavailable remote
WarnIfUnavailable(self) ==
  IF StrictEq(OptGet(_remoteState(self), "state"), Str(<<"u","n","a","v","a","i","l","a","b","l","e">>))
  THEN [self EXCEPT !.warnDisplay = "block", !.warnText = WarnUnavailable]
  ELSE self

\* an expiry that starts at the limit instead of after it
PendingExpiredAtLimit(self, t) ==
  Truthy(self.pendingActivityAt) /\ t - self.pendingActivityAt.v >= PENDING_EXPIRY_MS

\* a pending activity that never expires
PendingNeverExpires(self, t) == FALSE

\* the pendingExpired local of _update
PendingExpired(self, t) ==
  Then(IF Truthy(self.pendingActivityAt) THEN Num(t - self.pendingActivityAt.v) ELSE Null,
       LAMBDA pendingAge : ~IsNullish(pendingAge) /\ pendingAge.v > PENDING_EXPIRY_MS)

_update(w, t, env) ==
  IF ~w.this.root \/ ~Truthy(w.this.config) \/ ~Truthy(w.this.hass) THEN w
  ELSE
    Then(_updateGroupRadius(_applyLocalTheme(w.this, Get(w.this.config, "theme")),
                            env.inherited),
         LAMBDA s1 :
    Then(_isX2(s1), LAMBDA isX2 :
    Then(_activitySelectState(s1), LAMBDA sel :
    Then([w EXCEPT !.this = [s1 EXCEPT !.midCenterX2 = isX2, !.mediaX2 = isX2,
                                       !.mediaX1 = ~isX2]],
         LAMBDA w2 :
    Then(IF ~Truthy(_activitySelectEntityId(s1)) \/ ~Truthy(sel)
         THEN UpdateSelectorMissing(w2, t)
         ELSE UpdateSelectorPresent(w2, sel, s1.pendingActivity, PendingExpired(s1, t), t, env),
         LAMBDA w3 :
    Then(UpdateGroups(w3.this, isX2), LAMBDA s4 :
    [w3 EXCEPT !.this =
       _updateLoadIndicator(WarnIfUnavailable(UpdateKeys(s4, isX2, IsPoweredOff(s4))), t)]))))))

ConfigDefaults ==
  [show_activity |-> Bool(TRUE), show_dpad |-> Bool(TRUE), show_nav |-> Bool(TRUE),
   show_mid |-> Bool(TRUE), show_media |-> Bool(TRUE), show_colors |-> Bool(TRUE),
   show_abc |-> Bool(TRUE), theme |-> Str(<<>>), background_override |-> Null]

\* _render(): builds the DOM once
_render(self) == IF self.root THEN self ELSE [self EXCEPT !.root = TRUE]

\* setConfig(config); threw tells whether it ended in the Error
SetConfigThrows(config) == ~Truthy(OptGet(config, "entity"))

SetConfigAssignsFirst(w, config, t, env) ==
  IF SetConfigThrows(config)
  THEN [w EXCEPT !.this = _render([@ EXCEPT !.config = Obj(ConfigDefaults)])]
  ELSE _update([w EXCEPT !.this = _render([@ EXCEPT !.config = Obj(config.v @@ ConfigDefaults)])],
               t, env)

setConfig(w, config, t, env) ==
  IF SetConfigThrows(config) THEN w
  ELSE _update([w EXCEPT !.this = _render([@ EXCEPT !.config = Obj(config.v @@ ConfigDefaults)])],
               t, env)

\* set hass(hass)
setHass(w, hass, t, env) == _update([w EXCEPT !.this.hass = hass], t, env)

\* a listener that does not look at the disabled class
KeyClickUnguarded(w, k, t) ==
  _sendCommand(_triggerCommandPulse(w, t), Num(KeyOf(k).id))

\* the click listener of a key (_mkHuiButton, _mkColorKey)
KeyClick(w, k, t) ==
  IF ~w.this.keys[k].disabled
  THEN _sendCommand(_triggerCommandPulse(w, t), Num(KeyOf(k).id))
  ELSE w

----------------------------------------------------------------------------
(* The host: entities, snapshots, time *)

RemoteId == <<"r","e","m","o","t","e",".","h","u","b">>
SelectId == <<"s","e","l","e","c","t",".","h","u","b">>

Movie      == <<"M","o","v","i","e">>
TV         == <<"T","V">>
PoweredOff == <<"P","o","w","e","r","e","d"," ","O","f","f">>
StateOn    == <<"o","n">>
StateUnavailable == <<"u","n","a","v","a","i","l","a","b","l","e">>
VersionX1S == <<"X","1","S">>
VersionX2  == <<"x","1","s","-","X","2","-","r","e","v","3">>

\* a state object of hass.states
Entity(state, attributes) == Obj([state |-> state, attributes |-> Obj(attributes)])

\* The remote entity; an attribute the hub does not report is undefined.
RemoteEntity(state, version, buttons, activityId, label, selRef) ==
  Entity(Str(state),
         [hub_version |-> version, enabled_buttons |-> buttons,
          current_activity_id |-> activityId, current_activity |-> label,
          activity_select_entity_id |-> selRef])

SelectEntity(state, options) ==
  Entity(Str(state), [options |-> Arr([i \in DOMAIN options |-> Str(options[i])])])

NoThemes == [themes |-> <<>>, darkMode |-> FALSE]

\* the hass object: states holds the entities that exist
Hass(remote, sel, themes) ==
  [t |-> "hass",
   v |-> [states |-> [id \in (IF remote.t = "undef" THEN {} ELSE {RemoteId})
                               \cup (IF sel.t = "undef" THEN {} ELSE {SelectId})
                       |-> IF id = RemoteId THEN remote ELSE sel],
          themes |-> [t |-> "themes", v |-> themes]]]

NoInherited == << <<>>, <<>>, <<>>, <<>>, <<>> >>

\* the element as its constructor leaves it: no field is set, no DOM is built
NewCard ==
  [config |-> Undef, hass |-> Undef, root |-> FALSE,
   enabledButtonsInvalid |-> FALSE,
   pendingActivity |-> Undef, pendingActivityAt |-> Undef,
   suppressActivityChange |-> FALSE, activityOptionsSig |-> Undef,
   activityLoadActive |-> Undef, activityLoadTarget |-> Undef,
   activityLoadStartedAt |-> Undef, activityLoadTimeout |-> 0,
   commandPulseUntil |-> Undef, commandPulseTimeout |-> 0,
   loadIndicatorActive |-> Undef, loadIndicatorClass |-> FALSE,
   indicatorWrites |-> <<>>, themeWrites |-> 0,
   appliedThemeKey |-> Undef, appliedThemeVars |-> <<>>, style |-> <<>>,
   selectDisabled |-> FALSE, selectValue |-> Undef, selectItems |-> <<>>,
   warnDisplay |-> "none", warnText |-> "",
   keys |-> [k \in KeyNames |-> [display |-> "", disabled |-> FALSE]],
   groups |-> [g \in Groups |-> ""],
   midCenterX2 |-> FALSE, mediaX2 |-> FALSE, mediaX1 |-> TRUE]

\* What the history keeps of the state a handler started from (of a new card
\* when what ran is no handler of the card).
Pre(self) ==
  [pendingActivity |-> self.pendingActivity,
   pendingActivityAt |-> self.pendingActivityAt,
   activityLoadActive |-> self.activityLoadActive,
   activityLoadStartedAt |-> self.activityLoadStartedAt]

NoHistory == [op |-> "new", arg |-> Undef, out |-> Undef, pre |-> Pre(NewCard), issued |-> <<>>]

\* bounds of the model
MaxTime == 16500
MaxInflight == 1

\* the world a handler starts in
World ==
  [this |-> [this EXCEPT !.indicatorWrites = <<>>, !.themeWrites = 0], timers |-> timers, calls |-> <<>>]

Services == {"select_option", "send_command"}

\* the calls of a service among those a handler issued
CallsOf(calls, service) == Cardinality({i \in DOMAIN calls : calls[i].service = service})

\* a handler ran to completion and left world w, with at most cap calls of
\* a service in flight
RanWithin(w, op, arg, cap) ==
  /\ \A sv \in Services : inflight[sv] + CallsOf(w.calls, sv) <= cap
  /\ this' = w.this
  /\ timers' = w.timers
  /\ inflight' = [sv \in Services |-> inflight[sv] + CallsOf(w.calls, sv)]
  /\ last' = [op |-> op, arg |-> arg, out |-> Undef, pre |-> Pre(this), issued |-> w.calls]
  /\ UNCHANGED now

Ran(w, op, arg) == RanWithin(w, op, arg, MaxInflight)

\* The host sets the configuration.
SetConfigStep(configs, envs) ==
  \E config \in configs, env \in envs :
    Ran(setConfig(World, config, now, env),
        IF SetConfigThrows(config) THEN "setConfigError" ELSE "setConfig", config)

\* The host pushes a state snapshot (a tick).
HassStep(snapshots, envs) ==
  \E hass \in snapshots, env \in envs :
    Ran(setHass(World, hass, now, env), "tick", Undef)

\* The user picks an item of the selector: the control takes the value and
\* raises its event.
SelectStep(latest) ==
  /\ now <= latest
  /\ this.root /\ ~this.selectDisabled
  /\ \E i \in DOMAIN this.selectItems :
       LET v == this.selectItems[i]
           w == [World EXCEPT !.this.selectValue = v]
       IN Ran(handleActivitySelect(w, [detailValue |-> Undef, targetValue |-> v], now),
              "select", v)

\* The user presses a key that is displayed.
ClickStep(keys) ==
  /\ this.root
  /\ \E k \in keys :
       /\ this.keys[k].display = "" /\ this.groups[KeyOf(k).group] = ""
       /\ Ran(KeyClick(World, k, now), "click", Str(<<k>>))

\* A timer that is due runs its callback.
TimerStep ==
  \E x \in timers :
    /\ x.due <= now
    /\ LET w == [World EXCEPT !.timers = @ \ {x}] IN
         Ran(IF x.kind = "pulse" THEN PulseCallback(w, now) ELSE LoadCallback(w, now),
             x.kind, Undef)

\* A service call settles: it resolves, or it is rejected.  The rejection of
\* select_option is caught and logged by the listener; nothing else runs.
SettleStep ==
  \E sv \in Services, outcome \in {"resolve", "reject"} :
    /\ inflight[sv] > 0
    /\ inflight' = [inflight EXCEPT ![sv] = @ - 1]
    /\ last' = [NoHistory EXCEPT !.op = outcome, !.arg = Str(<<sv>>)]
    /\ UNCHANGED <<this, now, timers>>

\* Time passes, up to the next instant of interest and never past a timer
\* that is due.
AdvanceStepTo(instants, horizon) ==
  \E t \in (instants \cup {x.due : x \in timers} \cup {horizon}) :
    /\ t > now /\ t <= horizon
    /\ \A x \in timers : t <= x.due
    /\ now' = t
    /\ last' = [NoHistory EXCEPT !.op = "advance"]
    /\ UNCHANGED <<this, timers, inflight>>

AdvanceStep(instants) == AdvanceStepTo(instants, MaxTime)

----------------------------------------------------------------------------
(* Spec: the activity coordinator and its timers *)

ValidConfig == Obj([entity |-> Str(RemoteId)])
NoEntityConfig == Obj([theme |-> Str(<<>>)])

Options1 == <<PoweredOff, Movie, TV>>

Instants == {1000, 3000, 16000, 16001}

CoordSnapshots ==
  { Hass(RemoteEntity(StateOn, Str(VersionX1S), Undef, Num(101), label, Str(SelectId)),
         sel, NoThemes) :
      label \in {Undef, Str(Movie)},
      sel \in {Undef} \cup {SelectEntity(st, Options1) : st \in {Movie, TV}} }

CoordEnvs == [emit : {TRUE}, inherited : {NoInherited}]

Init ==
  /\ this = NewCard
  /\ now = 1000
  /\ timers = {}
  /\ inflight = [sv \in Services |-> 0]
  /\ last = NoHistory

Next ==
  \/ SetConfigStep({ValidConfig, NoEntityConfig}, CoordEnvs)
  \/ HassStep(CoordSnapshots, CoordEnvs)
  \/ SelectStep(MaxTime)
  \/ SettleStep
  \/ AdvanceStep(Instants)

Spec == Init /\ [][Next]_vars

\* the branch condition of _update: the selector is referenced and exists
SelectorPresent(self) ==
  Truthy(_activitySelectEntityId(self)) /\ Truthy(_activitySelectState(self))

\* the `current` local of _update: the selector's confirmed state
Confirmed(self) == OrElse(OptGet(_activitySelectState(self), "state"), Str(<<>>))

\* the coordinator is Idle: no pending value, no timestamp
Idle(self) == self.pendingActivity = Null /\ self.pendingActivityAt = Null

\* the coordinator was Pending before the last handler ran
WasPending == Truthy(last.pre.pendingActivity)

\* the age of that pending activity when the last handler ran
PendingAge == now - last.pre.pendingActivityAt.v

\* C1: no tick creates or refreshes the pending activity, starts activity
\* loading or issues a service call, although its write to the selector
\* control raises the control's event: after a tick the pending activity is
\* the one from before or none, loading is as before or off, and the tick
\* issued no call.
C1_TickNeverSetsActivity ==
  (last.op = "tick") =>
    /\ last.issued = <<>>
    /\ \/ /\ this.pendingActivity = last.pre.pendingActivity
          /\ this.pendingActivityAt = last.pre.pendingActivityAt
       \/ Idle(this)
    /\ \/ /\ this.activityLoadActive = last.pre.activityLoadActive
          /\ this.activityLoadStartedAt = last.pre.activityLoadStartedAt
       \/ ~Truthy(this.activityLoadActive)

\* a later tick wrote the requested value to the control while no call was
\* in flight
C1_Witness ==
  /\ last.op = "tick"
  /\ Truthy(this.pendingActivity) /\ this.selectValue = this.pendingActivity
  /\ now > this.pendingActivityAt.v
  /\ inflight["select_option"] = 0

\* C2: after every tick in which the selector entity is present, the control
\* displays the requested value if a pending activity is still set, and the
\* selector's confirmed state otherwise.
C2_DisplayedValue ==
  (last.op = "tick" /\ this.root /\ SelectorPresent(this))
  => this.selectValue = (IF Truthy(this.pendingActivity)
                         THEN this.pendingActivity ELSE Confirmed(this))

\* a tick left the request pending and displayed, the confirmed state being another
C2_Witness ==
  /\ last.op = "tick" /\ this.root /\ SelectorPresent(this)
  /\ this.pendingActivity = Str(Movie) /\ Confirmed(this) = Str(TV)
  /\ this.selectValue = Str(Movie)

\* C3: given Pending(v, t0), a tick before expiry whose selector state is v
\* leaves the coordinator Idle and the control displaying v.
C3_ConfirmationClearsPending ==
  ( /\ last.op = "tick" /\ WasPending /\ PendingAge <= PENDING_EXPIRY_MS
    /\ SelectorPresent(this) /\ Confirmed(this) = last.pre.pendingActivity )
  => (Idle(this) /\ this.selectValue = last.pre.pendingActivity)

\* Pending("Movie", t0) confirmed by the tick at t0 + 2000
C3_Witness ==
  /\ last.op = "tick" /\ last.pre.pendingActivity = Str(Movie) /\ PendingAge = 2000
  /\ SelectorPresent(this) /\ Confirmed(this) = Str(Movie)
  /\ Idle(this) /\ this.selectValue = Str(Movie)

C5_SelectionEntersPending ==
  ( /\ last.op = "select" /\ ~Truthy(last.pre.pendingActivity)
    /\ Truthy(_activitySelectEntityId(this))
    /\ ~StrictEq(OptGet(_activitySelectState(this), "state"), last.arg) )
  => /\ this.pendingActivity = last.arg /\ this.pendingActivityAt = Num(now)
     /\ last.issued = << [domain |-> "select", service |-> "select_option",
                          data |-> [entity_id |-> _activitySelectEntityId(this),
                                    option |-> last.arg]] >>
     /\ this.activityLoadActive = Bool(TRUE) /\ this.activityLoadTarget = last.arg
     /\ {x \in timers : x.kind = "load"}
          = {[id |-> this.activityLoadTimeout, kind |-> "load",
              due |-> now + ACTIVITY_LOAD_TIMEOUT_MS]}

\* the user picks "TV" while the hub is on "Movie" and nothing is pending
C5_Witness ==
  /\ last.op = "select" /\ last.arg = Str(TV) /\ ~Truthy(last.pre.pendingActivity)
  /\ Confirmed(this) = Str(Movie)
  /\ this.pendingActivity = Str(TV) /\ Len(last.issued) = 1

----------------------------------------------------------------------------
(* SpecFair: the coordinator under a host that keeps pushing snapshots *)

\* the selector present in either state, missing, or not referenced
FairSnapshots ==
  { Hass(RemoteEntity(StateOn, Str(VersionX1S), Undef, Num(101), Undef, ref), sel, NoThemes) :
      ref \in {Str(SelectId)},
      sel \in {Undef} \cup {SelectEntity(st, Options1) : st \in {Movie, TV}} }
  \cup
  { Hass(RemoteEntity(StateOn, Str(VersionX1S), Undef, Num(101), Undef, Undef),
         SelectEntity(TV, Options1), NoThemes) }

\* the last instant at which a request can still expire before time is cut
LatestSelect == MaxTime - PENDING_EXPIRY_MS - 1

NextFair ==
  \/ SetConfigStep({ValidConfig}, CoordEnvs)
  \/ HassStep(FairSnapshots, CoordEnvs)
  \/ SelectStep(LatestSelect)
  \/ SettleStep
  \/ AdvanceStep(Instants)

\* Time passes, every call settles, and the host keeps pushing snapshots.
Fairness ==
  /\ WF_vars(AdvanceStep(Instants))
  /\ WF_vars(SettleStep)
  /\ []<><<last'.op = "tick">>_vars

SpecFair == Init /\ [][NextFair]_vars /\ Fairness

\* a select_option call was rejected while its request is pending
RejectedPending ==
  /\ last.op = "reject" /\ last.arg = Str(<<"select_option">>)
  /\ Truthy(this.pendingActivity)

\* the last handler was a tick that found the selector entity
TickWithSelector == last.op = "tick" /\ this.root /\ SelectorPresent(this)

\* the rejection of a call runs nothing but the log: the card is as it was
\* and no call is issued
NoRetry ==
  (last'.op = "reject") =>
    /\ this' = this /\ timers' = timers
    /\ \A sv \in Services : inflight'[sv] <= inflight[sv]

----------------------------------------------------------------------------
(* SpecEnabled: _isEnabled as a function of the enabled_buttons attribute *)

MaxLen == 2

\* entries of enabled_buttons: scalars and records, well-formed and not
EntryValues ==
  { Num(3), Num(7), Str(<<"7">>), Str(<<" ","3"," ">>), Str(<<"x">>), Str(<<>>), Null,
    Obj([command |-> Num(3)]),
    Obj([command_id |-> Str(<<"7">>), activity_id |-> Num(5)]),
    Obj([button_id |-> Num(5), device |-> Str(<<"9">>)]),
    Obj([id |-> Num(7)]),
    Obj([button |-> Num(3)]),
    Obj([command |-> Null, id |-> Num(5)]),
    Obj([command |-> Str(<<"a","b","c">>)]),
    Obj([activity_id |-> Num(5)]),
    Arr(<<Num(3)>>) }

ButtonLists == UNION {[1..n -> EntryValues] : n \in 0..MaxLen}

\* values of the attribute that are no list
NoLists == {Undef, Null, Str(<<"1","7","4">>)}

ButtonIds == {Num(0), Num(3), Num(5), Num(7), Str(<<"7">>)}

EnabledSnapshot(buttons) ==
  Hass(RemoteEntity(StateOn, Str(VersionX1S), buttons, Num(101), Undef, Str(SelectId)),
       SelectEntity(Movie, Options1), NoThemes)

TickEnv == [emit |-> TRUE, inherited |-> NoInherited]

\* The card once it is configured and has seen two snapshots, the second
\* with the attribute value under test.
CardAfter(first, second) ==
  setHass(
    setHass(
      setConfig([this |-> NewCard, timers |-> {}, calls |-> <<>>], ValidConfig, 1000, TickEnv),
      EnabledSnapshot(first), 1000, TickEnv),
    EnabledSnapshot(second), 1000, TickEnv).this

InitEnabled ==
  /\ \E first \in {Undef, Arr(<<Str(<<"x">>)>>)},
        second \in {Arr(l) : l \in ButtonLists} \cup NoLists :
       this = CardAfter(first, second)
  /\ now = 1000
  /\ timers = {}
  /\ inflight = [sv \in Services |-> 0]
  /\ last = NoHistory

\* A caller asks _isEnabled(id); _enabledButtons() leaves its flag behind.
IsEnabledStep ==
  \E id \in ButtonIds :
    /\ this' = [this EXCEPT !.enabledButtonsInvalid = EnabledButtonsInvalidAfter(this)]
    /\ last' = [NoHistory EXCEPT !.op = "isEnabled", !.arg = id,
                                 !.out = Bool(_isEnabled(this, id))]
    /\ UNCHANGED <<now, timers, inflight>>

SpecEnabled == InitEnabled /\ [][IsEnabledStep]_vars

\* the raw enabled_buttons attribute of the current snapshot
RawButtons == RemoteAttr(this, "enabled_buttons")

\* an entry fails to parse to a finite command id
FailsToParse(entry) == ~IsFinite(ParseEntry(entry).command)

\* C7: for a non-empty enabled_buttons list in which every entry fails to
\* parse to a finite command id, _isEnabled(x) is true for every id x.
C7_MalformedListFailsOpen ==
  ( /\ last.op = "isEnabled"
    /\ RawButtons.t = "arr" /\ Len(RawButtons.v) > 0
    /\ \A i \in DOMAIN RawButtons.v : FailsToParse(RawButtons.v[i]) )
  => last.out = Bool(TRUE)

\* a list of two entries, a record and a scalar, neither of which parses
C7_Witness ==
  /\ last.op = "isEnabled" /\ last.arg = Num(5) /\ last.out = Bool(TRUE)
  /\ RawButtons = Arr(<<Obj([command |-> Str(<<"a","b","c">>)]), Str(<<"x">>)>>)

\* C8: for an empty enabled_buttons list, or an attribute that is absent or
\* not a list, _isEnabled(x) is true for every id x.
C8_AbsentListFailsOpen ==
  ( /\ last.op = "isEnabled"
    /\ (RawButtons.t # "arr" \/ RawButtons.v = <<>>) )
  => last.out = Bool(TRUE)

\* the empty list
C8_Witness ==
  /\ last.op = "isEnabled" /\ last.arg = Num(3) /\ last.out = Bool(TRUE)
  /\ RawButtons = Arr(<<>>)

\* C9: for a list with an entry that parses to a finite command id,
\* _isEnabled(id) is true exactly when some entry parses to a command id
\* equal to id; the entries that fail to parse enable and disable nothing.
C9_EnabledIffListed ==
  ( /\ last.op = "isEnabled"
    /\ RawButtons.t = "arr"
    /\ \E i \in DOMAIN RawButtons.v : ~FailsToParse(RawButtons.v[i]) )
  => ( last.out = Bool(\E i \in DOMAIN RawButtons.v :
                          /\ ~FailsToParse(RawButtons.v[i])
                          /\ ParseEntry(RawButtons.v[i]).command = ToNumber(last.arg)) )

\* entries 3 and 7: id 5 is not enabled
C9_Witness ==
  /\ last.op = "isEnabled" /\ last.arg = Num(5) /\ last.out = Bool(FALSE)
  /\ RawButtons = Arr(<<Num(3), Num(7)>>)

----------------------------------------------------------------------------
(* SpecGate: what a tick renders, over the shapes a snapshot can take *)

GateButtons ==
  { Undef, Arr(<<>>), Arr(<<Str(<<"x">>)>>),
    Arr(<<Num(174), Obj([command |-> Str(<<"1","7","6">>), activity_id |-> Num(101)])>>),
    Arr(<<Num(157), Num(151)>>) }

\* the selector: not referenced, referenced and missing, or present in a state
GateSelectors ==
  { [ref |-> Undef, sel |-> Undef],
    [ref |-> Str(SelectId), sel |-> Undef],
    [ref |-> Str(SelectId), sel |-> SelectEntity(Movie, Options1)],
    [ref |-> Str(SelectId), sel |-> SelectEntity(PoweredOff, Options1)],
    [ref |-> Str(SelectId), sel |-> SelectEntity(<<" ","O","F","F"," ">>, Options1)] }

GateSnapshot(state, version, buttons, label, s) ==
  Hass(RemoteEntity(state, version, buttons, Num(101), label, s.ref), s.sel, NoThemes)

GateSnapshots ==
  { GateSnapshot(st, Str(VersionX2), b, Undef, s) :
      st \in {StateOn, StateUnavailable}, b \in GateButtons, s \in GateSelectors }
  \cup
  { GateSnapshot(StateOn, v, Arr(<<Num(157), Num(151)>>), label, s) :
      v \in {Str(VersionX1S), Undef}, label \in {Str(PoweredOff), Str(Movie)},
      s \in {x \in GateSelectors : x.sel # Undef} }
  \cup
  { Hass(Undef, SelectEntity(Movie, Options1), NoThemes) }

NextGate ==
  \/ SetConfigStep({ValidConfig}, CoordEnvs)
  \/ HassStep(GateSnapshots, CoordEnvs)

SpecGate == Init /\ [][NextGate]_vars

\* C10: after every tick, each button of the catalog is rendered enabled
\* exactly when the hub is not powered off and _isEnabled(id) is true for the
\* snapshot of that tick.
C10_ButtonEnabledIffGate ==
  (last.op = "tick" /\ this.root)
  => \A k \in KeyNames :
       (~this.keys[k].disabled)
         <=> (~IsPoweredOff(this) /\ _isEnabled(this, Num(KeyOf(k).id)))

\* a tick of a running hub whose list enables "up" and "ok" only
C10_Witness ==
  /\ last.op = "tick" /\ this.root
  /\ ~IsPoweredOff(this)
  /\ ~this.keys["up"].disabled /\ ~this.keys["ok"].disabled
  /\ this.keys["down"].disabled

\* the label the card takes for the confirmed activity: current_activity,
\* or the selector's state when the attribute is absent
ConfirmedLabel(self) == Str(_currentActivityLabel(self, _activitySelectState(self)))

\* C11: after every tick the powered-off rule follows the confirmed activity
\* label (current_activity, or the selector's state when the label is
\* absent): a label that is a powered-off synonym disables every button, and
\* any other label leaves each button enabled exactly when _isEnabled(id).
C11_PoweredOffFromLabel ==
  (last.op = "tick" /\ this.root)
  => \A k \in KeyNames :
       (~this.keys[k].disabled)
         <=> ( /\ ~_isPoweredOffLabel(ConfirmedLabel(this))
               /\ _isEnabled(this, Num(KeyOf(k).id)) )

\* the label says "Powered Off" while the selector is on "Movie": keys stay enabled
C11_LabelOffKeysEnabled ==
  /\ last.op = "tick" /\ this.root
  /\ RemoteAttr(this, "current_activity") = Str(PoweredOff)
  /\ Confirmed(this) = Str(Movie)
  /\ \E k \in KeyNames : ~this.keys[k].disabled

\* the hub_version string holds "X2" in either case
HubIsX2(self) ==
  LET v == RemoteAttr(self, "hub_version")
      chars == IF v.t = "str" THEN v.v ELSE <<>>
  IN \E i \in 1..(Len(chars) - 1) : chars[i] \in {"x", "X"} /\ chars[i + 1] = "2"

\* a key is shown: neither its wrapper nor its group is hidden
Visible(self, k) == self.keys[k].display = "" /\ self.groups[KeyOf(k).group] = ""

\* C12: after every tick (all groups switched on in the configuration) a
\* button is visible exactly when it is not restricted to the X2 hub or
\* hub_version holds "X2" in either case; whatever the variant was before.
C12_VisibleIffVariant ==
  (last.op = "tick" /\ this.root)
  => \A k \in KeyNames : Visible(this, k) <=> (~KeyOf(k).isX2Only \/ HubIsX2(this))

\* "x1s-X2-rev3" shows the restricted keys and the A/B/C group
C12_Witness ==
  /\ last.op = "tick" /\ this.root
  /\ RemoteAttr(this, "hub_version") = Str(VersionX2)
  /\ Visible(this, "guide") /\ Visible(this, "a") /\ Visible(this, "up")
  /\ this.mediaX2

----------------------------------------------------------------------------
(* SpecPress: key presses, their commands and the command pulse *)

\* lists: "up" owned by device 5 (and by 9 in a later entry), "ok" without
\* an owner; or no list at all
PressButtons ==
  { Undef,
    Arr(<<Obj([command |-> Num(174), activity_id |-> Num(5)]), Num(176),
          Obj([command |-> Num(174), device |-> Num(9)])>>) }

PressSnapshots ==
  { Hass(RemoteEntity(StateOn, Str(VersionX1S), b, id, Undef, Str(SelectId)),
         SelectEntity(Movie, Options1), NoThemes) :
      b \in PressButtons, id \in {Num(101), Null} }
  \cup
  { Hass(RemoteEntity(StateOn, Str(VersionX1S), Undef, Num(101), Undef, Str(SelectId)),
         SelectEntity(PoweredOff, Options1), NoThemes) }

PressKeys == {"up", "ok", "down"}

PressInstants == {1000, 1500}

\* the user presses keys in the first instants only
LatestPress == 1500
EarlyClickStep(keys) == now <= LatestPress /\ ClickStep(keys)

NextPress ==
  \/ SetConfigStep({ValidConfig}, CoordEnvs)
  \/ HassStep(PressSnapshots, CoordEnvs)
  \/ EarlyClickStep(PressKeys)
  \/ TimerStep
  \/ SettleStep
  \/ AdvanceStep(PressInstants)

SpecPress == Init /\ [][NextPress]_vars

\* the key the last click was on
ClickedKey == last.arg.v[1]

\* the indices of the parsed entries whose command is c
Matches(self, c) ==
  {i \in DOMAIN _enabledButtons(self) : _enabledButtons(self)[i].command = Num(c)}

\* the device a command c of this snapshot is addressed to: the owner the
\* first matching entry records, else the confirmed activity id, else null
ExpectedDevice(self, c) ==
  LET m == Matches(self, c)
      first == CHOOSE i \in m : \A j \in m : i <= j
      owner == IF m = {} THEN Null ELSE _enabledButtons(self)[first].activity_id
      activityId == RemoteAttr(self, "current_activity_id")
  IN IF owner # Null THEN owner
     ELSE IF activityId.t = "num" THEN activityId
     ELSE Null

\* C13: a press of an enabled button with command c issues exactly one
\* remote.send_command call for c, addressed to the owner that the first
\* entry matching c records, or else to the confirmed activity id; when
\* neither is known it issues no call.
C13_PressSendsToTarget ==
  (last.op = "click" /\ ~this.keys[ClickedKey].disabled)
  => LET c == KeyOf(ClickedKey).id
         device == ExpectedDevice(this, c)
     IN last.issued =
          IF device = Null THEN <<>>
          ELSE << [domain |-> "remote", service |-> "send_command",
                   data |-> [entity_id |-> Str(RemoteId), command |-> Num(c),
                             device |-> device]] >>

\* "up" is pressed: two entries match, the first names device 5
C13_Witness ==
  /\ last.op = "click" /\ ClickedKey = "up" /\ ~this.keys["up"].disabled
  /\ Cardinality(Matches(this, 174)) = 2
  /\ Len(last.issued) = 1 /\ last.issued[1].data.device = Num(5)

----------------------------------------------------------------------------
(* SpecLoad: activity loading, the command pulse and their timers, over   *)
(* the 60000 ms of the safety timer                                       *)

LoadHorizon == 62000

LoadInstants == {1000, 1500, 2000, 61000}

LoadSnapshots ==
  { Hass(RemoteEntity(StateOn, Str(VersionX1S), Undef, Num(101), Undef, Str(SelectId)),
         SelectEntity(st, Options1), NoThemes) : st \in {Movie, TV} }

NextLoad ==
  \/ SetConfigStep({ValidConfig}, CoordEnvs)
  \/ HassStep(LoadSnapshots, CoordEnvs)
  \/ SelectStep(1000)
  \/ EarlyClickStep({"ok"})
  \/ TimerStep
  \/ SettleStep
  \/ AdvanceStepTo(LoadInstants, LoadHorizon)

SpecLoad == Init /\ [][NextLoad]_vars

\* the indicator element shows and the card holds it for shown
IndicatorOn(self) == self.loadIndicatorClass /\ self.loadIndicatorActive = Bool(TRUE)

\* C14: _isLoadingActive() is true right after a press has triggered the
\* command pulse and at every instant before the pulse's deadline, the
\* indicator showing; when the pulse-clear callback runs at or after the
\* deadline and no activity load is active, _isLoadingActive() is false and
\* the indicator is off.
C14_PulseLastsUntilDeadline ==
  /\ (last.op = "click" /\ ~this.keys[ClickedKey].disabled)
       => /\ this.commandPulseUntil = Num(now + COMMAND_PULSE_MS)
          /\ Truthy(_isLoadingActive(this, now)) /\ IndicatorOn(this)
  /\ (Truthy(this.commandPulseUntil) /\ now < this.commandPulseUntil.v)
       => (Truthy(_isLoadingActive(this, now)) /\ IndicatorOn(this))
  /\ ( /\ last.op = "pulse" /\ now >= this.commandPulseUntil.v
       /\ ~Truthy(this.activityLoadActive) )
       => /\ ~Truthy(_isLoadingActive(this, now))
          /\ ~this.loadIndicatorClass /\ this.loadIndicatorActive = Bool(FALSE)

\* the callback of a second, later pulse ran at its deadline and cleared the indicator
C14_Witness ==
  /\ last.op = "pulse" /\ now = 2500 /\ this.commandPulseUntil = Num(2500)
  /\ ~Truthy(this.activityLoadActive)
  /\ ~this.loadIndicatorClass /\ this.loadIndicatorActive = Bool(FALSE)

\* the time of the latest call of _startActivityLoading
LoadStartedAt(self) == self.activityLoadStartedAt.v

\* C15: while activity loading is active, no more than 60000 ms have passed
\* since the latest call of _startActivityLoading, and at the 60000th ms the
\* safety callback is still due; once the callback has run, 60000 ms after
\* that call, activity loading is not active, whatever the snapshots were.
C15_LoadForcedOffAfterTimeout ==
  /\ Truthy(this.activityLoadActive)
       => /\ this.activityLoadStartedAt.t = "num"
          /\ now <= LoadStartedAt(this) + ACTIVITY_LOAD_TIMEOUT_MS
          /\ [id |-> this.activityLoadTimeout, kind |-> "load",
              due |-> LoadStartedAt(this) + ACTIVITY_LOAD_TIMEOUT_MS] \in timers
  /\ last.op = "load"
       => /\ ~Truthy(this.activityLoadActive)
          /\ Truthy(last.pre.activityLoadActive)
          /\ now = last.pre.activityLoadStartedAt.v + ACTIVITY_LOAD_TIMEOUT_MS

\* the activity selected at 1000 ms was never confirmed; the safety callback
\* ran at 61000 ms and activity loading is off from then on
C15_Witness ==
  /\ now > 1000 + ACTIVITY_LOAD_TIMEOUT_MS
  /\ this.activityLoadStartedAt = Num(1000)
  /\ this.activityLoadTarget = Str(TV) /\ ConfirmedLabel(this) # Str(TV)
  /\ ~Truthy(this.activityLoadActive)
  /\ ~this.loadIndicatorClass

----------------------------------------------------------------------------
(* SpecTheme: configurations and snapshots that differ in the theme, the  *)
(* background override, the theme definitions and the dark mode           *)

Dark == <<"d","a","r","k">>
VarX == <<"x">>
VarY == <<"-","-","y">>

DarkPlain ==
  [vars |-> << <<VarX, Str(<<"1">>)>>, <<PrimaryBgName, Str(<<"b">>)>> >>, modes |-> Undef]
DarkModes ==
  [vars |-> << <<VarX, Str(<<"1">>)>> >>,
   modes |-> Obj([light |-> << <<VarX, Str(<<"2">>)>> >>, dark |-> << <<VarY, Num(3)>> >>])]

ThemeSets ==
  { NoThemes,
    [themes |-> (Dark :> DarkPlain), darkMode |-> FALSE],
    [themes |-> (Dark :> DarkModes), darkMode |-> FALSE],
    [themes |-> (Dark :> DarkModes), darkMode |-> TRUE] }

ThemeSnapshots ==
  { Hass(RemoteEntity(StateOn, Str(VersionX1S), Undef, Num(101), Undef, Str(SelectId)),
         SelectEntity(Movie, Options1), th) : th \in ThemeSets }

Override == Arr(<<Num(1), Num(2), Num(3)>>)

ThemeConfigs ==
  { ValidConfig,
    Obj([entity |-> Str(RemoteId), theme |-> Str(Dark)]),
    Obj([entity |-> Str(RemoteId), background_override |-> Override]),
    Obj([entity |-> Str(RemoteId), theme |-> Str(Dark), background_override |-> Override]) }

ThemeEnvs ==
  [emit : {TRUE}, inherited : {NoInherited, << <<"4","p","x">>, <<>>, <<>>, <<>>, <<>> >>}]

\* configurations without an entity
BadConfigs ==
  { Null, Obj([theme |-> Str(Dark)]), Obj([entity |-> Str(<<>>), theme |-> Str(Dark)]) }

NextTheme ==
  \/ SetConfigStep(ThemeConfigs \cup BadConfigs, ThemeEnvs)
  \/ HassStep(ThemeSnapshots, ThemeEnvs)

SpecTheme == Init /\ [][NextTheme]_vars

\* the theme key of the configuration in force: theme id and override color
ThemeKey(self) ==
  ToStringChars(OrElse(Get(self.config, "theme"), Str(<<>>))) \o <<"|","|">>
    \o (IF Get(self.config, "background_override") = Override
        THEN <<"r","g","b","(","1",","," ","2",","," ","3",")">> ELSE <<>>)

\* C16: a tick (or a setConfig) that finds the theme key equal to the key of
\* the last application makes no removeProperty and no setProperty call in
\* _applyLocalTheme and leaves the record of applied variables and the
\* applied key as they were.
C16_UnchangedKeyNoThemeWrites ==
  [][ ( /\ last'.op \in {"tick", "setConfig"}
        /\ this.root /\ Truthy(this'.hass)
        /\ this.appliedThemeKey = Str(ThemeKey(this')) )
      => /\ this'.themeWrites = 0
         /\ this'.appliedThemeVars = this.appliedThemeVars
         /\ this'.appliedThemeKey = this.appliedThemeKey ]_vars

\* a tick found the key "dark||" already applied; the snapshot now says dark
\* mode although the variables on the card are those of the light mode
C16_Witness ==
  /\ last.op = "tick" /\ this.themeWrites = 0
  /\ this.appliedThemeKey = Str(Dark \o <<"|","|">>)
  /\ this.hass.v.themes.v.darkMode
  /\ <<"-","-","x">> \in DOMAIN this.style /\ this.style[<<"-","-","x">>] = <<"2">>
  /\ Len(this.appliedThemeVars) = 2

\* C17: setConfig with a configuration without an entity ends in the Error
\* and changes nothing: the configuration in force, the DOM (built or not),
\* every field a reconciliation pass writes, the timers and the calls stay
\* as they were.
C17_RejectedConfigChangesNothing ==
  [][ (last'.op \in {"setConfig", "setConfigError"} /\ ~Truthy(OptGet(last'.arg, "entity")))
      => /\ last'.op = "setConfigError"
         /\ this' = World.this
         /\ timers' = timers /\ inflight' = inflight /\ last'.issued = <<>> ]_vars

\* a configuration naming theme "dark" but no entity was rejected while the
\* card runs under an accepted configuration without a theme
C17_Witness ==
  /\ last.op = "setConfigError" /\ last.arg = Obj([theme |-> Str(Dark)])
  /\ this.root /\ Truthy(this.hass)
  /\ Get(this.config, "entity") = Str(RemoteId) /\ Get(this.config, "theme") = Str(<<>>)
  /\ Dark \in DOMAIN this.hass.v.themes.v.themes
  /\ this.appliedThemeKey = Str(<<"|","|">>)

----------------------------------------------------------------------------
(* SpecShow: the card under {entity, show_colors: false}, over the         *)
(* snapshot shapes of SpecGate                                             *)

ColorsOffConfig == Obj([entity |-> Str(RemoteId), show_colors |-> Bool(FALSE)])

NextShow ==
  \/ SetConfigStep({ColorsOffConfig}, CoordEnvs)
  \/ HassStep(GateSnapshots, CoordEnvs)

SpecShow == Init /\ [][NextShow]_vars

\* the groups a visibility option alone decides
OptionGroups == {"activity", "dpad", "nav", "mid", "media"}

\* C18 as stated: under {entity, show_colors: false} the color group is
\* hidden after every tick and every other group, A/B/C included, is shown.
C18_AllOtherGroupsVisible ==
  (last.op = "tick" /\ this.root)
  => /\ this.groups["colors"] = "none"
     /\ \A g \in Groups \ {"colors"} : this.groups[g] = ""

\* C18: under {entity, show_colors: false} the color group is hidden after
\* every tick, the activity row, d-pad, nav row, mid and media groups are
\* shown, and the A/B/C group is shown exactly when the hub is an X2.
C18_ColorsHiddenOthersShown ==
  (last.op = "tick" /\ this.root)
  => /\ this.groups["colors"] = "none"
     /\ \A g \in OptionGroups : this.groups[g] = ""
     /\ (this.groups["abc"] = "" <=> HubIsX2(this))

\* after a tick of an X1S hub the A/B/C group is hidden with the color group
C18_Witness ==
  /\ last.op = "tick" /\ this.root
  /\ Get(this.config, "show_colors") = Bool(FALSE) /\ Get(this.config, "show_abc") = Bool(TRUE)
  /\ RemoteAttr(this, "hub_version") = Str(VersionX1S)
  /\ this.groups["colors"] = "none" /\ this.groups["abc"] = "none"
  /\ \A g \in OptionGroups : this.groups[g] = ""

----------------------------------------------------------------------------
(* Ticks without the selector, and ticks of an unavailable remote (SpecGate) *)

RemoteUnavailable(self) == OptGet(_remoteState(self), "state") = Str(StateUnavailable)

\* C19: after a tick whose snapshot lacks the selector reference or the
\* selector entity, the selector control is disabled and the warning is
\* shown (with the missing-selector text unless the remote is unavailable),
\* each button is enabled exactly when _isEnabled(id) holds for the snapshot,
\* and each button is visible exactly when it is not X2-only or the hub is
\* an X2.
C19_GatingWithoutSelector ==
  (last.op = "tick" /\ this.root /\ ~SelectorPresent(this))
  => /\ this.selectDisabled /\ this.selectItems = <<>>
     /\ this.warnDisplay = "block"
     /\ (~RemoteUnavailable(this) => this.warnText = WarnSelectMissing)
     /\ \A k \in KeyNames :
          /\ (~this.keys[k].disabled) <=> _isEnabled(this, Num(KeyOf(k).id))
          /\ Visible(this, k) <=> (~KeyOf(k).isX2Only \/ HubIsX2(this))

\* a tick of an X2 hub that references no selector and lists 157 and 151:
\* warning shown, control disabled, "guide" and "c" enabled, "up" disabled
C19_Witness ==
  /\ last.op = "tick" /\ this.root
  /\ RemoteAttr(this, "activity_select_entity_id") = Undef
  /\ RemoteAttr(this, "enabled_buttons") = Arr(<<Num(157), Num(151)>>)
  /\ this.selectDisabled /\ this.warnDisplay = "block" /\ this.warnText = WarnSelectMissing
  /\ ~this.keys["guide"].disabled /\ ~this.keys["c"].disabled /\ this.keys["up"].disabled
  /\ Visible(this, "guide")

\* C20 as stated: a tick whose snapshot reports the remote unavailable shows
\* the warning and leaves every button enabled or disabled as the tick
\* before it computed.
C20_UnavailableKeepsGating ==
  [][ (last'.op = "tick" /\ this.root /\ Truthy(this.hass) /\ RemoteUnavailable(this'))
      => /\ this'.warnDisplay = "block" /\ this'.warnText = WarnUnavailable
         /\ \A k \in KeyNames : this'.keys[k].disabled = this.keys[k].disabled ]_vars

\* what the code does on such a tick: the warning is shown and the buttons
\* are gated by the unavailable snapshot itself; here it carries no list, so
\* every button is enabled
C20_UnavailableRegated ==
  /\ last.op = "tick" /\ this.root /\ RemoteUnavailable(this)
  /\ this.warnDisplay = "block" /\ this.warnText = WarnUnavailable
  /\ RemoteAttr(this, "enabled_buttons") = Undef
  /\ ~IsPoweredOff(this)
  /\ \A k \in KeyNames : ~this.keys[k].disabled

----------------------------------------------------------------------------
(* Activity loading and its auto-stop (Spec, SpecLoad) *)

LoadTimers == {x \in timers : x.kind = "load"}

\* the last handler was a tick that confirmed the pending activity
ConfirmingTick ==
  /\ last.op = "tick" /\ WasPending
  /\ SelectorPresent(this) /\ Confirmed(this) = last.pre.pendingActivity

\* C21 as stated: the tick that confirms Pending(v, t) leaves activity
\* loading off and no safety timer pending.
C21_ConfirmationStopsLoading ==
  ConfirmingTick => (~Truthy(this.activityLoadActive) /\ LoadTimers = {})

\* C21: the tick that confirms Pending(v, t) leaves activity loading off and
\* no safety timer pending when the confirmed activity label (current_activity,
\* or the selector's state when the remote reports none) is v as well; when
\* the label names another activity, loading stays as it was.
C21_ConfirmationStopsLoadingOnLabel ==
  ConfirmingTick
  => IF ConfirmedLabel(this) = last.pre.pendingActivity
     THEN ~Truthy(this.activityLoadActive) /\ LoadTimers = {}
     ELSE /\ this.activityLoadActive = last.pre.activityLoadActive
          /\ this.activityLoadStartedAt = last.pre.activityLoadStartedAt

\* Pending("TV") is confirmed 2000 ms after the selection by a snapshot
\* without current_activity: loading, active before the tick, is off and its
\* timer is gone
C21_Witness ==
  /\ ConfirmingTick /\ last.pre.pendingActivity = Str(TV) /\ PendingAge = 2000
  /\ RemoteAttr(this, "current_activity") = Undef
  /\ Truthy(last.pre.activityLoadActive)
  /\ ~Truthy(this.activityLoadActive) /\ LoadTimers = {} /\ Idle(this)

\* C22: after every tick it is not the case that activity loading is active
\* with a (non-empty) target and the confirmed activity label equals the
\* target, whether or not the pending activity has resolved.
C22_NoLoadingOnConfirmedTarget ==
  (last.op = "tick" /\ this.root)
  => ~( /\ Truthy(this.activityLoadActive) /\ Truthy(this.activityLoadTarget)
        /\ ConfirmedLabel(this) = this.activityLoadTarget )

\* a tick reports current_activity "Movie", the target, while the selector is
\* still on "TV": loading is stopped although Pending("Movie") stays
C22_Witness ==
  /\ last.op = "tick" /\ this.root /\ SelectorPresent(this)
  /\ Truthy(last.pre.activityLoadActive) /\ ~Truthy(this.activityLoadActive)
  /\ ConfirmedLabel(this) = Str(Movie) /\ Confirmed(this) = Str(TV)
  /\ this.pendingActivity = Str(Movie) /\ PendingAge <= PENDING_EXPIRY_MS
  /\ LoadTimers = {}

PulseTimers == {x \in timers : x.kind = "pulse"}

\* C23: in every reachable state at most one pulse-clear timer and at most
\* one activity-load safety timer are pending, and a pending timer is the one
\* whose handle the card holds.
C23_OneTimerPerKind ==
  /\ Cardinality(PulseTimers) <= 1 /\ Cardinality(LoadTimers) <= 1
  /\ \A x \in PulseTimers : x.id = this.commandPulseTimeout
  /\ \A x \in LoadTimers : x.id = this.activityLoadTimeout

\* a press at 1500 ms superseded the pulse of a press at 1000 ms (handle 2)
\* while the safety timer of a selection (handle 1) is pending
C23_Witness ==
  /\ last.op = "click" /\ now = 1500
  /\ timers = { [id |-> 1, kind |-> "load", due |-> 1000 + ACTIVITY_LOAD_TIMEOUT_MS],
                [id |-> 3, kind |-> "pulse", due |-> 1500 + COMMAND_PULSE_MS] }

\* C24: after a press, the only pulse-clear callback pending is the one that
\* press scheduled, due 1000 ms after it; a pending callback is always due at
\* the deadline of the latest press, so none runs before it; and until that
\* deadline the indicator shows busy.
C24_LastPressWins ==
  /\ (last.op = "click" /\ ~this.keys[ClickedKey].disabled)
       => PulseTimers = {[id |-> this.commandPulseTimeout, kind |-> "pulse",
                          due |-> now + COMMAND_PULSE_MS]}
  /\ \A x \in PulseTimers : this.commandPulseUntil = Num(x.due)
  /\ last.op = "pulse" => now >= this.commandPulseUntil.v
  /\ (Truthy(this.commandPulseUntil) /\ now < this.commandPulseUntil.v) => IndicatorOn(this)

\* presses at 1000 and 1500 ms and no selection: at 2000 ms, where the first
\* callback was due, the indicator is on and the one callback pending (the
\* second handle) is due at 2500 ms
C24_Witness ==
  /\ now = 1000 + COMMAND_PULSE_MS
  /\ timers = {[id |-> 2, kind |-> "pulse", due |-> 1500 + COMMAND_PULSE_MS]}
  /\ this.activityLoadTimeout = 0 /\ ~Truthy(this.activityLoadActive)
  /\ this.commandPulseUntil = Num(1500 + COMMAND_PULSE_MS) /\ IndicatorOn(this)

\* _stopActivityLoading() called in the present state, once and twice
StopOnce == _stopActivityLoading(World, now)
StopTwice == _stopActivityLoading(StopOnce, now)

\* C25: called while loading is active, _stopActivityLoading clears the flag,
\* the target and the start time and cancels the safety timer, touching no
\* other timer; called while loading is inactive it changes nothing and
\* writes nothing to the indicator; a second call changes nothing.  A tick
\* that turned loading off did so through it: target, start time and timer
\* are cleared.
C25_StopIdempotent ==
  /\ StopTwice = StopOnce
  /\ IF Truthy(this.activityLoadActive)
     THEN /\ StopOnce.this.activityLoadActive = Bool(FALSE)
          /\ StopOnce.this.activityLoadTarget = Null
          /\ StopOnce.this.activityLoadStartedAt = Null
          /\ StopOnce.timers = PulseTimers
          /\ StopOnce.calls = <<>>
     ELSE StopOnce = World
  /\ (last.op = "tick" /\ Truthy(last.pre.activityLoadActive)
        /\ ~Truthy(this.activityLoadActive))
       => /\ this.activityLoadActive = Bool(FALSE) /\ this.activityLoadTarget = Null
          /\ this.activityLoadStartedAt = Null /\ LoadTimers = {}

\* a tick stopped the loading a selection had started and left the pending
\* pulse timer alone; stopping again leaves the card as it is
C25_Witness ==
  /\ last.op = "tick" /\ Truthy(last.pre.activityLoadActive)
  /\ this.activityLoadActive = Bool(FALSE) /\ this.activityLoadTarget = Null
  /\ LoadTimers = {} /\ this.activityLoadTimeout > 0
  /\ PulseTimers # {} /\ IndicatorOn(this)
  /\ StopOnce = World

\* the handlers of the card, as opposed to time passing and calls settling
HandlerOps == {"setConfig", "setConfigError", "tick", "select", "click", "pulse", "load"}

\* C26: the writes a handler makes to the indicator alternate between on and
\* off, the first differing from what was rendered before the handler; the
\* rendered class is that of the last write; and after a handler that ends
\* in a recompute (a tick, a timer callback, the press of an enabled key) the
\* rendered indicator is on exactly when _isLoadingActive() is truthy.
C26_IndicatorWritesAlternate ==
  [][ last'.op \in HandlerOps =>
        LET ws == this'.indicatorWrites IN
        /\ \A i \in DOMAIN ws :
             Truthy(ws[i]) # (IF i = 1 THEN this.loadIndicatorClass ELSE Truthy(ws[i - 1]))
        /\ this'.loadIndicatorClass
             = (IF ws = <<>> THEN this.loadIndicatorClass ELSE Truthy(ws[Len(ws)]))
        /\ ( \/ last'.op \in {"pulse", "load"}
             \/ last'.op = "tick" /\ this.root
             \/ last'.op = "click" /\ ~this.keys[last'.arg.v[1]].disabled )
           => (this'.loadIndicatorClass <=> Truthy(_isLoadingActive(this', now'))) ]_vars

\* before any press, a tick stopped activity loading: the recomputed value is
\* undefined, it differs from the rendered true, and the write turned the
\* indicator off
C26_Witness ==
  /\ last.op = "tick" /\ this.indicatorWrites = <<Undef>>
  /\ this.commandPulseUntil = Undef
  /\ this.loadIndicatorActive = Undef /\ ~this.loadIndicatorClass
  /\ Truthy(last.pre.activityLoadActive)

----------------------------------------------------------------------------
(* The select_option call in flight (Spec) *)

SelectInFlight == inflight["select_option"] > 0

\* C27: the handler that issues the select_option call has set the pending
\* activity and started activity loading when it returns, the call being in
\* flight; a tick of a present selector that arrives while the call is in
\* flight and the pending activity is not older than 15000 ms displays the
\* requested value; and the settling of a call, resolved or rejected,
\* changes no field of the card and no timer.
C27_OptimisticBeforeCompletion ==
  [][ /\ (last'.op = "select" /\ last'.issued # <<>>)
           => /\ inflight'["select_option"] > 0
              /\ this'.pendingActivity = last'.arg /\ this'.pendingActivityAt = Num(now')
              /\ Truthy(this'.activityLoadActive) /\ this'.activityLoadTarget = last'.arg
      /\ ( /\ last'.op = "tick" /\ SelectInFlight /\ Truthy(this.pendingActivity)
           /\ now - this.pendingActivityAt.v <= PENDING_EXPIRY_MS
           /\ SelectorPresent(this') )
           => this'.selectValue = this.pendingActivity
      /\ last'.op \in {"resolve", "reject"}
           => (this' = this /\ timers' = timers) ]_vars

\* 2000 ms after "TV" was selected the call is still in flight and a tick of
\* a hub on "Movie" displays "TV"
C27_Witness ==
  /\ last.op = "tick" /\ SelectInFlight
  /\ this.pendingActivity = Str(TV) /\ PendingAge = 2000
  /\ Confirmed(this) = Str(Movie) /\ this.selectValue = Str(TV)
  /\ Truthy(this.activityLoadActive)

----------------------------------------------------------------------------
(* Flags as a function of the latest snapshot (SpecGate) *)

\* each key's visible and enabled flags
Flags(self) ==
  [k \in KeyNames |-> [visible |-> Visible(self, k), enabled |-> ~self.keys[k].disabled]]

\* the card of the shortest history that ends with snapshot hass: a new
\* card, configured, then pushed hass
CardFresh(hass) ==
  setHass(setConfig([this |-> NewCard, timers |-> {}, calls |-> <<>>], ValidConfig, 1000, TickEnv),
          hass, 1000, TickEnv).this

\* C28: once the card is configured and has been pushed a snapshot, each
\* key's visible and enabled flags are those that the latest snapshot alone
\* gives (the flags of a new card configured and pushed that snapshot),
\* whatever snapshots came before.
C28_FlagsFromLatestSnapshot ==
  (this.root /\ Truthy(this.hass)) => Flags(this) = Flags(CardFresh(this.hass))

\* a tick that was not the card's first (the theme key was already applied)
\* shows an X2 hub listing 157 and 151: "guide" is visible and enabled, "up"
\* is disabled, as on a new card
C28_Witness ==
  /\ last.op = "tick" /\ this.root /\ this.themeWrites = 0
  /\ HubIsX2(this) /\ RemoteAttr(this, "enabled_buttons") = Arr(<<Num(157), Num(151)>>)
  /\ ~IsPoweredOff(this)
  /\ Flags(this)["guide"] = [visible |-> TRUE, enabled |-> TRUE]
  /\ Flags(this)["up"] = [visible |-> TRUE, enabled |-> FALSE]
  /\ Flags(this) = Flags(CardFresh(this.hass))

----------------------------------------------------------------------------
(* The option items of the selector control (Spec) *)

\* the options local of _update: the selector's options attribute when it
\* is an array, the empty list otherwise
CurrentOptions(self) ==
  Then(OptGet(Get(_activitySelectState(self), "attributes"), "options"), LAMBDA opts :
    IF opts.t = "arr" THEN opts.v ELSE <<>>)

\* C29: after every tick in which the selector entity is present, the option
\* items of the selector control are exactly the selector's current options
\* in order, whatever ticks came before.
C29_ItemsAreOptions ==
  (last.op = "tick" /\ this.root /\ SelectorPresent(this))
  => this.selectItems = CurrentOptions(this)

\* a tick with the selector present and three options leaves the control
\* without items: the selector was missing on an earlier tick and the
\* options signature of the tick before that still matches
C29_StaleSignatureEmptyControl ==
  /\ last.op = "tick" /\ this.root /\ SelectorPresent(this)
  /\ Len(CurrentOptions(this)) = Len(Options1)
  /\ this.activityOptionsSig = [t |-> "json", v |-> CurrentOptions(this)]
  /\ this.selectItems = <<>>
  /\ ~this.selectDisabled

----------------------------------------------------------------------------
(* The properties on the card root after a theme application (SpecTheme) *)

\* the variable map of the theme the configuration in force names, resolved
\* for the snapshot's dark mode; empty without a theme or a definition
NewThemeEntries(self) ==
  Then(ThemeVars(self, Get(self.config, "theme")), LAMBDA tv :
    IF tv.t = "arr" THEN tv.v ELSE <<>>)

\* the custom properties the new theme sets: its string and number entries
\* with a non-empty value, under their "--" names
NewThemeProps(self) ==
  { CssVarName(NewThemeEntries(self)[i][1]) :
      i \in { j \in DOMAIN NewThemeEntries(self) :
                /\ NewThemeEntries(self)[j][2].t \in {"str", "num"}
                /\ ToStringChars(NewThemeEntries(self)[j][2]) # <<>> } }

\* the background that resolves: the override, else the theme's first
\* background-like variable, else none (the empty string)
ResolvedBackground(self) ==
  IF Get(self.config, "background_override") = Override
  THEN <<"r","g","b","(","1",","," ","2",","," ","3",")">>
  ELSE Then({ n \in {Bare(BgVarNames[1]), Bare(BgVarNames[2]), Bare(BgVarNames[3]), PrimaryBgName} :
                Truthy(VarOf(NewThemeEntries(self), n)) }, LAMBDA found :
         IF found = {} THEN <<>>
         ELSE IF Bare(BgVarNames[1]) \in found THEN ToStringChars(VarOf(NewThemeEntries(self), Bare(BgVarNames[1])))
         ELSE IF Bare(BgVarNames[2]) \in found THEN ToStringChars(VarOf(NewThemeEntries(self), Bare(BgVarNames[2])))
         ELSE IF Bare(BgVarNames[3]) \in found THEN ToStringChars(VarOf(NewThemeEntries(self), Bare(BgVarNames[3])))
         ELSE ToStringChars(VarOf(NewThemeEntries(self), PrimaryBgName)))

\* the five forced background properties
ForcedProps == {BgVarNames[i] : i \in DOMAIN BgVarNames} \cup {BgPropNames[i] : i \in DOMAIN BgPropNames}

\* C30: a tick or setConfig that changes the applied theme key leaves on the
\* card root exactly the properties of the new theme, the five forced
\* background properties (all with the resolved background as value) if a
\* background resolved, and the group radius; a property set by the previous
\* application remains only if it is one of these, and the record of
\* applied variables names exactly the properties on the root.
C30_KeyChangeReplacesProperties ==
  [][ ( /\ last'.op \in {"tick", "setConfig"}
        /\ this'.root /\ Truthy(this'.hass)
        /\ this'.appliedThemeKey # this.appliedThemeKey )
      => /\ this'.appliedThemeKey = Str(ThemeKey(this'))
         /\ DOMAIN this'.style
              = NewThemeProps(this')
                \cup (IF ResolvedBackground(this') # <<>> THEN ForcedProps ELSE {})
                \cup {GroupRadiusName}
         /\ ResolvedBackground(this') # <<>>
              => \A n \in ForcedProps : this'.style[n] = ResolvedBackground(this')
         /\ \A n \in NewThemeProps(this') \ ForcedProps :
              \E i \in DOMAIN NewThemeEntries(this') :
                /\ CssVarName(NewThemeEntries(this')[i][1]) = n
                /\ this'.style[n] = ToStringChars(NewThemeEntries(this')[i][2])
         /\ {this'.appliedThemeVars[i] : i \in DOMAIN this'.appliedThemeVars} = DOMAIN this'.style ]_vars

\* setConfig added the override to theme "dark" while the snapshot defines
\* "dark" as {x, primary-background-color}: the application removed three
\* properties of the previous one (--x, --y of the dark mode, the radius),
\* set the theme's two and the five forced ones; --y is gone
C30_Witness ==
  /\ last.op = "setConfig" /\ this.root /\ Truthy(this.hass)
  /\ this.appliedThemeKey = Str(Dark \o <<"|","|","r","g","b","(","1",","," ","2",","," ","3",")">>)
  /\ Dark \in DOMAIN this.hass.v.themes.v.themes
  /\ this.hass.v.themes.v.themes[Dark] = DarkPlain
  /\ this.themeWrites = 10
  /\ VarY \notin DOMAIN this.style
  /\ <<"-","-","x">> \in DOMAIN this.style
  /\ this.style[BgPropNames[1]] = <<"r","g","b","(","1",","," ","2",","," ","3",")">>
  /\ Cardinality(DOMAIN this.style) = 8

----------------------------------------------------------------------------
(* The effective background (SpecTheme) *)

RgbOverride == <<"r","g","b","(","1",","," ","2",","," ","3",")">>

\* the background the theme named by the configuration declares for the
\* snapshot in force, "" if none
ThemeBackground(self) ==
  IF VarOf(NewThemeEntries(self), PrimaryBgName).t = "str"
  THEN VarOf(NewThemeEntries(self), PrimaryBgName).v ELSE <<>>

\* C31: after a tick or setConfig that changes the applied theme key, the
\* effective background is the override if the configuration has one, else
\* the background the theme declares, else none; if there is one, the three
\* semantic background variables and the literal background and
\* background-color properties all hold it; if there is none, the literal
\* background properties are not set on the root.
C31_BackgroundPrecedence ==
  [][ ( /\ last'.op \in {"tick", "setConfig"}
        /\ this'.root /\ Truthy(this'.hass)
        /\ this'.appliedThemeKey # this.appliedThemeKey )
      => IF Get(this'.config, "background_override") = Override
         THEN \A n \in ForcedProps : n \in DOMAIN this'.style /\ this'.style[n] = RgbOverride
         ELSE IF ThemeBackground(this') # <<>>
         THEN \A n \in ForcedProps :
                n \in DOMAIN this'.style /\ this'.style[n] = ThemeBackground(this')
         ELSE \A i \in DOMAIN BgPropNames : BgPropNames[i] \notin DOMAIN this'.style ]_vars

\* setConfig dropped the theme and the override after an application that
\* had forced a background (6 or 8 properties removed, none set, the two
\* literal properties cleared): only the group radius is left on the root
C31_Witness ==
  /\ last.op = "setConfig" /\ this.root /\ Truthy(this.hass)
  /\ this.appliedThemeKey = Str(<<"|","|">>)
  /\ this.themeWrites \in {8, 10}
  /\ DOMAIN this.style = {GroupRadiusName}

----------------------------------------------------------------------------
(* SpecDouble: a selector control that raises both "selected" and "change"  *)
(* for one selection                                                        *)

MaxDoubleInflight == 2

\* The user picks an item and the control raises "selected" and then
\* "change": the listener, registered for both, runs twice.
SelectBothStep(latest) ==
  /\ now <= latest
  /\ this.root /\ ~this.selectDisabled
  /\ \E i \in DOMAIN this.selectItems :
       Then([detailValue |-> Undef, targetValue |-> this.selectItems[i]], LAMBDA ev :
         RanWithin(handleActivitySelect(
                     handleActivitySelect([World EXCEPT !.this.selectValue = this.selectItems[i]],
                                          ev, now),
                     ev, now),
                   "selectBoth", this.selectItems[i], MaxDoubleInflight))

NextDouble ==
  \/ SetConfigStep({ValidConfig}, CoordEnvs)
  \/ HassStep(CoordSnapshots, CoordEnvs)
  \/ SelectBothStep(MaxTime)
  \/ SettleStep
  \/ AdvanceStep(Instants)

SpecDouble == Init /\ [][NextDouble]_vars

\* the selector state the card held when the handler ran differs from v
Unconfirmed(v) == ~StrictEq(OptGet(_activitySelectState(this), "state"), v)

\* C32: one selection of a value other than the confirmed one, delivered as
\* "selected" and "change", issues exactly one select_option call and leaves
\* Pending(v, t) with t the time of the first event.
C32_OneCallPerSelection ==
  (last.op = "selectBoth" /\ Unconfirmed(last.arg))
  => /\ CallsOf(last.issued, "select_option") = 1
     /\ this.pendingActivity = last.arg
     /\ this.pendingActivityAt = Num(now)

\* the selection of TV while the selector confirms Movie issued two
\* select_option calls for TV
C32_TwoCallsForOneSelection ==
  /\ last.op = "selectBoth" /\ last.arg = Str(TV)
  /\ OptGet(_activitySelectState(this), "state") = Str(Movie)
  /\ Len(last.issued) = 2
  /\ \A i \in DOMAIN last.issued :
       last.issued[i].service = "select_option" /\ last.issued[i].data.option = Str(TV)
  /\ this.pendingActivity = Str(TV)
  /\ inflight["select_option"] = 2

----------------------------------------------------------------------------
(* The selection of the confirmed value (Spec) *)

\* C33: a selection of the value the selector's state already has issues no
\* call and leaves the pending activity, its timestamp, the loading flag,
\* its target and start, the indicator and every timer as they were,
\* whether or not another value is pending.
C33_ConfirmedSelectionNoOp ==
  [][ ( /\ last'.op = "select"
        /\ StrictEq(OptGet(_activitySelectState(this), "state"), last'.arg) )
      => /\ last'.issued = <<>> /\ inflight' = inflight
         /\ timers' = timers
         /\ Pre(this') = Pre(this)
         /\ this'.activityLoadTarget = this.activityLoadTarget
         /\ this'.activityLoadTimeout = this.activityLoadTimeout
         /\ this'.loadIndicatorActive = this.loadIndicatorActive
         /\ this'.loadIndicatorClass = this.loadIndicatorClass
         /\ this'.indicatorWrites = <<>> ]_vars

\* "Movie", the selector's state, was selected while "TV" is pending and
\* loading: nothing was issued, "TV" is still pending under its timer
C33_Witness ==
  /\ last.op = "select" /\ last.arg = Str(Movie)
  /\ OptGet(_activitySelectState(this), "state") = Str(Movie)
  /\ last.issued = <<>>
  /\ this.pendingActivity = Str(TV) /\ last.pre.pendingActivity = Str(TV)
  /\ Truthy(this.activityLoadActive) /\ this.activityLoadTarget = Str(TV)
  /\ \E x \in timers : x.kind = "load"
  /\ this.selectValue = Str(Movie)

----------------------------------------------------------------------------
(* SpecSwitch: a second selection while the first is pending, under        *)
(* snapshots whose current_activity is absent or names the third option    *)

LatestSwitch == 3000

SwitchSnapshots ==
  { Hass(RemoteEntity(StateOn, Str(VersionX1S), Undef, Num(101), label, Str(SelectId)),
         SelectEntity(st, Options1), NoThemes) :
      label \in {Undef, Str(PoweredOff)}, st \in {Movie, TV} }

NextSwitch ==
  \/ SetConfigStep({ValidConfig}, CoordEnvs)
  \/ HassStep(SwitchSnapshots, CoordEnvs)
  \/ SelectStep(LatestSwitch)
  \/ SettleStep
  \/ AdvanceStep(Instants)

SpecSwitch == Init /\ [][NextSwitch]_vars

\* the handler was a selection of w while another value v was pending, w
\* being neither v nor the selector's state
Reselected ==
  /\ last.op = "select" /\ WasPending
  /\ last.arg # last.pre.pendingActivity
  /\ ~StrictEq(OptGet(_activitySelectState(this), "state"), last.arg)

\* a tick of a present selector in a state other than the pending activity
\* (the state v of an earlier selection among them), the pending activity
\* not being older than 15000 ms
OtherStateTick ==
  /\ last.op = "tick" /\ WasPending /\ SelectorPresent(this)
  /\ Confirmed(this) # last.pre.pendingActivity
  /\ now - last.pre.pendingActivityAt.v <= PENDING_EXPIRY_MS

\* the selection replaced Pending(v, t) by Pending(w, now), loading w under
\* one safety timer due 60000 ms from now
ReselectionReplaces ==
  Reselected
  => /\ this.pendingActivity = last.arg /\ this.pendingActivityAt = Num(now)
     /\ this.activityLoadActive = Bool(TRUE) /\ this.activityLoadTarget = last.arg
     /\ this.activityLoadStartedAt = Num(now)
     /\ LoadTimers = {[id |-> this.activityLoadTimeout, kind |-> "load",
                       due |-> now + ACTIVITY_LOAD_TIMEOUT_MS]}

\* the tick keeps Pending(w) and displays w
OtherStateKeepsPending ==
  OtherStateTick
  => /\ this.pendingActivity = last.pre.pendingActivity
     /\ this.pendingActivityAt = last.pre.pendingActivityAt
     /\ this.selectValue = this.pendingActivity

\* C34 as stated: a selection of w while Pending(v, t) gives Pending(w, now)
\* loading w under a restarted 60000 ms timer, and a later tick whose
\* selector state is not w (a confirmation of v) keeps Pending(w), displays
\* w and leaves loading as it was.
C34_ReselectionSurvivesConfirmation ==
  /\ ReselectionReplaces
  /\ OtherStateKeepsPending
  /\ OtherStateTick
       => /\ this.activityLoadActive = last.pre.activityLoadActive
          /\ this.activityLoadStartedAt = last.pre.activityLoadStartedAt

\* C34: a selection of w while Pending(v, t) gives Pending(w, now) loading w
\* under a restarted 60000 ms timer; a later tick whose selector state is
\* not w (a confirmation of v) keeps Pending(w) and displays w; it leaves
\* loading as it was unless the activity label of the tick (current_activity
\* when the remote reports one) is w, the loading target, and then loading
\* is off and its timer cancelled.
C34_ReselectionSurvivesUnlessLabel ==
  /\ ReselectionReplaces
  /\ OtherStateKeepsPending
  /\ OtherStateTick
       => IF Truthy(last.pre.activityLoadActive) /\ ConfirmedLabel(this) = this.pendingActivity
          THEN ~Truthy(this.activityLoadActive) /\ LoadTimers = {}
          ELSE /\ this.activityLoadActive = last.pre.activityLoadActive
               /\ this.activityLoadStartedAt = last.pre.activityLoadStartedAt

\* "Powered Off" was selected at 3000 as the second selection (its safety
\* timer is the second one); a tick then has the selector in state "TV"
\* without current_activity: "Powered Off" is still pending, displayed and
\* loading
C34_Witness ==
  /\ OtherStateTick /\ now = 3000
  /\ Confirmed(this) = Str(TV) /\ RemoteAttr(this, "current_activity") = Undef
  /\ this.pendingActivity = Str(PoweredOff) /\ this.pendingActivityAt = Num(3000)
  /\ this.selectValue = Str(PoweredOff)
  /\ Truthy(this.activityLoadActive) /\ this.activityLoadTarget = Str(PoweredOff)
  /\ LoadTimers = {[id |-> 2, kind |-> "load", due |-> 3000 + ACTIVITY_LOAD_TIMEOUT_MS]}

----------------------------------------------------------------------------
(* SpecOff: selections on a hub whose selector is in a powered-off state,  *)
(* in another state, or missing                                            *)

LatestOff == 1000

OffSnapshots ==
  { Hass(RemoteEntity(StateOn, Str(VersionX1S), Undef, Num(101), Undef, Str(SelectId)),
         sel, NoThemes) :
      sel \in {Undef} \cup {SelectEntity(st, Options1) : st \in {PoweredOff, Movie}} }

NextOff ==
  \/ SetConfigStep({ValidConfig}, CoordEnvs)
  \/ HassStep(OffSnapshots, CoordEnvs)
  \/ SelectStep(LatestOff)
  \/ SettleStep
  \/ AdvanceStep(Instants)

SpecOff == Init /\ [][NextOff]_vars

\* the snapshot the card holds has the selector in a powered-off state
ConfirmedOff(self) ==
  SelectorPresent(self) /\ _isPoweredOffLabel(Confirmed(self))

\* C35: whenever the snapshot the rendered card holds has the selector in a
\* powered-off state, every button is disabled, whatever value is pending
\* or displayed; and a button goes from disabled to enabled only in a tick
\* (or a setConfig, which runs the same pass) whose snapshot does not have
\* the selector in a powered-off state.
C35_GatingFollowsConfirmedState ==
  [][ /\ (this'.root /\ Truthy(this'.hass) /\ ConfirmedOff(this'))
           => \A k \in KeyNames : this'.keys[k].disabled
      /\ (\E k \in KeyNames : this.keys[k].disabled /\ ~this'.keys[k].disabled)
           => (last'.op \in {"tick", "setConfig"} /\ ~ConfirmedOff(this')) ]_vars

\* 2000 ms after "Movie" was selected a tick still has the selector in
\* state "Powered Off": the control displays "Movie", "Movie" is pending,
\* and every button is disabled
C35_Witness ==
  /\ last.op = "tick" /\ now = 3000
  /\ Confirmed(this) = Str(PoweredOff)
  /\ this.pendingActivity = Str(Movie) /\ this.pendingActivityAt = Num(1000)
  /\ this.selectValue = Str(Movie)
  /\ \A k \in KeyNames : this.keys[k].disabled

----------------------------------------------------------------------------
(* Presses of disabled and of enabled keys (SpecPress) *)

\* C36: a press of a key that carries the disabled class issues no call,
\* starts no pulse and changes no timer; a press of a key that does not
\* sets the pulse to end 1000 ms later, shows the indicator and leaves
\* exactly one pulse timer, due then, whether or not a send_command call is
\* issued.
C36_PulseIffKeyEnabled ==
  [][ last'.op = "click"
      => IF this.keys[last'.arg.v[1]].disabled
         THEN /\ last'.issued = <<>> /\ inflight' = inflight
              /\ timers' = timers
              /\ this'.commandPulseUntil = this.commandPulseUntil
              /\ this'.commandPulseTimeout = this.commandPulseTimeout
              /\ this'.loadIndicatorClass = this.loadIndicatorClass
              /\ this'.indicatorWrites = <<>>
         ELSE /\ this'.commandPulseUntil = Num(now + COMMAND_PULSE_MS)
              /\ this'.loadIndicatorClass
              /\ {x \in timers' : x.kind = "pulse"}
                   = {[id |-> this'.commandPulseTimeout, kind |-> "pulse",
                       due |-> now + COMMAND_PULSE_MS]} ]_vars

\* "ok", enabled, is pressed on a hub that reports no activity id and whose
\* list names no owner for it: no call is issued and the pulse runs
C36_Witness ==
  /\ last.op = "click" /\ ClickedKey = "ok" /\ ~this.keys["ok"].disabled
  /\ Truthy(this.hass) /\ RemoteAttr(this, "current_activity_id") = Null
  /\ last.issued = <<>>
  /\ this.commandPulseUntil = Num(now + COMMAND_PULSE_MS)
  /\ this.loadIndicatorClass
  /\ \E x \in timers : x.kind = "pulse" /\ x.due = now + COMMAND_PULSE_MS

----------------------------------------------------------------------------
(* The inline warning (SpecGate) *)

\* C37: every tick of a rendered card leaves the warning visible exactly
\* when its snapshot lacks the selector (the reference or the entity) or
\* reports the remote in state "unavailable", whatever the warning was
\* before the tick.
C37_WarningIffMissingOrUnavailable ==
  [][ (last'.op = "tick" /\ this'.root)
      => ( this'.warnDisplay = "block"
           <=> (~SelectorPresent(this') \/ RemoteUnavailable(this')) ) ]_vars

\* a tick of an available remote with its selector, after a tick without
\* the selector had shown the warning and emptied the control: the warning
\* is hidden
C37_Witness ==
  /\ last.op = "tick" /\ this.root
  /\ SelectorPresent(this) /\ ~RemoteUnavailable(this)
  /\ OptGet(_remoteState(this), "state") = Str(StateOn)
  /\ this.selectItems = <<>> /\ Len(CurrentOptions(this)) = Len(Options1)
  /\ this.warnDisplay = "none"

----------------------------------------------------------------------------
(* SpecLoadFair: SpecLoad under a host whose clock advances and whose      *)
(* timers fire; snapshots and user actions may stop at any point           *)

LoadFairness ==
  /\ WF_vars(AdvanceStepTo(LoadInstants, LoadHorizon))
  /\ WF_vars(TimerStep)

SpecLoadFair == Init /\ [][NextLoad]_vars /\ LoadFairness

\* the busy indicator carries its class
IndicatorShown == this.loadIndicatorClass

\* C38: whenever the busy indicator is shown, a pulse timer or an
\* activity-load safety timer is pending; and from some point on (user
\* actions come only up to LatestPress, snapshots need not come at all) the
\* indicator is off for good.
C38_IndicatorBackedByTimer ==
  /\ [](IndicatorShown => (PulseTimers \cup LoadTimers) # {})
  /\ <>[](~IndicatorShown)

\* the safety timer fired 60000 ms after a selection that no snapshot
\* confirmed and turned the indicator off; no timer is left
C38_Witness ==
  /\ last.op = "load" /\ now = 1000 + ACTIVITY_LOAD_TIMEOUT_MS
  /\ Truthy(last.pre.activityLoadActive)
  /\ ~Truthy(this.activityLoadActive)
  /\ ~IndicatorShown /\ timers = {}
  /\ Truthy(this.pendingActivity)

----------------------------------------------------------------------------
(* SpecVariants: _isEnabled of the simple variant of the card beside        *)
(* _isEnabled of the rich one, on the same snapshot and id                  *)

\* _enabledButtons() of the simple variant: list.map((n) => Number(n))
SimpleEnabledButtons(self) ==
  Then(RemoteAttr(self, "enabled_buttons"), LAMBDA list :
    IF list.t # "arr" THEN <<>> ELSE [i \in DOMAIN list.v |-> ToNumber(list.v[i])])

\* Array.prototype.includes compares by SameValueZero: NaN is found
SameValueZero(a, b) == a = b

\* _isEnabled(id) of the simple variant
SimpleIsEnabled(self, id) ==
  Then(SimpleEnabledButtons(self), LAMBDA enabled :
    IF Len(enabled) = 0 THEN TRUE
    ELSE \E i \in DOMAIN enabled : SameValueZero(enabled[i], ToNumber(id)))

\* A caller asks both variants for the same id on the same snapshot.
BothIsEnabledStep ==
  \E id \in ButtonIds :
    /\ this' = [this EXCEPT !.enabledButtonsInvalid = EnabledButtonsInvalidAfter(this)]
    /\ last' = [NoHistory EXCEPT !.op = "isEnabledBoth", !.arg = id,
                                 !.out = Obj([rich |-> Bool(_isEnabled(this, id)),
                                              simple |-> Bool(SimpleIsEnabled(this, id))])]
    /\ UNCHANGED <<now, timers, inflight>>

SpecVariants == InitEnabled /\ [][BothIsEnabledStep]_vars

\* the attribute is a list of scalars only (no record, no nested list)
ScalarList(list) ==
  list.t = "arr" /\ \A i \in DOMAIN list.v : list.v[i].t \notin {"obj", "arr"}

\* C39: for an enabled_buttons list made of scalar entries only, the simple
\* variant and the rich variant return the same _isEnabled(id) for every id.
C39_VariantsAgreeOnScalars ==
  (last.op = "isEnabledBoth" /\ ScalarList(RawButtons))
  => last.out.v.rich = last.out.v.simple

\* the list ["x"], whose only entry is no number: the rich variant fails
\* open, the simple variant finds NaN in a non-empty list and disables
C39_VariantsDisagree ==
  /\ last.op = "isEnabledBoth" /\ last.arg = Num(3)
  /\ RawButtons = Arr(<<Str(<<"x">>)>>)
  /\ last.out.v.rich = Bool(TRUE)
  /\ last.out.v.simple = Bool(FALSE)

====
